---------------------------- MODULE Spec2Model ----------------------------
(***************************************************************************)
(* A model of the Flask application src/app.py: the downloads directory    *)
(* (file store), the process-wide session registry session_files, the      *)
(* signed-cookie session of each browser, the background sweep thread, and *)
(* the range-request streaming endpoint.                                   *)
(*                                                                         *)
(* Strings are sequences of one-character strings, so that equality,       *)
(* prefixes, ordering, parsing and formatting are computed as Python       *)
(* computes them.                                                          *)
(***************************************************************************)
EXTENDS Integers, Sequences, FiniteSets, TLC

VARIABLES
    now,            \* time.time(), whole seconds
    files,          \* DOWNLOADS_DIR: filename -> [size, mtime]
    session_files,  \* app.py:37, session id -> list of filenames
    cookie,         \* per browser: the Flask session (signed cookie)
    tokens,         \* number of session ids minted by secrets.token_hex
    resp,           \* the response of the last completed request
    acquired,       \* history: per browser, filenames returned by a successful acquisition
    backend_calls,  \* history: number of AI backend invocations
    sw_pc, sw_time, sw_todo, sw_cur, sw_wake, sw_log,   \* the sweep thread
    st_pc, st_filename, st_range, st_size, byte_start, byte_end,
    content_length, f_pos, remaining, body, st_status,  \* one GET /stream request
    ch_pc, ch_client, ch_events, ch_items, ch_failed,   \* one GET /chat/stream request
    flight,         \* requests in flight: the session each carries and its position
    fetch,          \* one call of get_youtube_transcript: its position and its attempts
    Download_objects,   \* the Django downloader: the saved rows of model Download
    download_obj,       \* per request of the Django index view: its Download object
    downloads_dir       \* settings.DOWNLOADS_DIR of the Django downloader

storeVars  == <<now, files, session_files, cookie, tokens, resp, acquired, backend_calls>>
sweepVars  == <<sw_pc, sw_time, sw_todo, sw_cur, sw_wake, sw_log>>
streamVars == <<st_pc, st_filename, st_range, st_size, byte_start, byte_end,
                content_length, f_pos, remaining, body, st_status>>
chatVars   == <<ch_pc, ch_client, ch_events, ch_items, ch_failed>>
djangoVars == <<Download_objects, download_obj, downloads_dir>>
vars == <<storeVars, sweepVars, streamVars, chatVars, flight, fetch, djangoVars>>

-----------------------------------------------------------------------------
(* Characters and strings                                                  *)

\* Python's None: a value no string equals (a string's elements are single
\* characters).
None == <<"<None>">>


\* The characters the model uses, in code-point order (Python compares
\* strings by code point).
Alphabet ==
      <<" ", "!", "'", "-", ".", "/", "0", "1", "2", "3", "4", "5", "6", "7",
        "8", "9", ":", "=", "?", "A", "B", "C", "D", "E", "F", "G", "H", "I",
        "J", "K", "L", "M", "N", "O", "P", "Q", "R", "S", "T", "U", "V", "W",
        "X", "Y", "Z", "_", "a", "b", "c", "d", "e", "f", "g", "h", "i", "j",
        "k", "l", "m", "n", "o", "p", "q", "r", "s", "t", "u", "v", "w", "x",
        "y", "z">>

Ord(c) == CHOOSE i \in 1..Len(Alphabet) : Alphabet[i] = c

DigitChars == <<"0", "1", "2", "3", "4", "5", "6", "7", "8", "9">>

UpperChars ==
      <<"A", "B", "C", "D", "E", "F", "G", "H", "I", "J", "K", "L", "M", "N",
        "O", "P", "Q", "R", "S", "T", "U", "V", "W", "X", "Y", "Z">>

LowerChars ==
      <<"a", "b", "c", "d", "e", "f", "g", "h", "i", "j", "k", "l", "m", "n",
        "o", "p", "q", "r", "s", "t", "u", "v", "w", "x", "y", "z">>

IsDigit(c) == \E i \in 1..10 : DigitChars[i] = c

DigitVal(c) == (CHOOSE i \in 1..10 : DigitChars[i] = c) - 1

IsUpper(c) == \E i \in 1..Len(UpperChars) : UpperChars[i] = c

IsAlpha(c) == IsUpper(c) \/ \E i \in 1..Len(LowerChars) : LowerChars[i] = c

\* str.isalnum() of one character
IsAlnum(c) == IsAlpha(c) \/ IsDigit(c)

\* str.lower() of one character
LowerChar(c) ==
    IF IsUpper(c) THEN LowerChars[CHOOSE i \in 1..Len(UpperChars) : UpperChars[i] = c]
    ELSE c

Lower(s) == [i \in 1..Len(s) |-> LowerChar(s[i])]

\* str(n) for a natural number
RECURSIVE Digits(_)
Digits(n) == IF n < 10 THEN <<DigitChars[n + 1]>>
             ELSE Digits(n \div 10) \o <<DigitChars[(n % 10) + 1]>>

\* int(s) for a non-empty string of digits
RECURSIVE ParseInt(_)
ParseInt(s) == IF Len(s) = 0 THEN 0
               ELSE 10 * ParseInt(SubSeq(s, 1, Len(s) - 1)) + DigitVal(s[Len(s)])

\* secrets.token_hex(16) of the k-th call: tokens are taken to be distinct.
Token(k) == Digits(k)

Min(a, b) == IF a < b THEN a ELSE b

\* s.startswith(p) at 1-based position i
MatchesAt(s, i, p) ==
    /\ i + Len(p) - 1 <= Len(s)
    /\ \A k \in 1..Len(p) : s[i + k - 1] = p[k]

\* the length of the longest run of digits of s starting at position i
RECURSIVE DigitRun(_, _)
DigitRun(s, i) == IF i <= Len(s) /\ IsDigit(s[i]) THEN 1 + DigitRun(s, i + 1) ELSE 0

\* s1 < s2 as Python compares str
RECURSIVE StrLess(_, _)
StrLess(s1, s2) ==
    IF Len(s2) = 0 THEN FALSE
    ELSE IF Len(s1) = 0 THEN TRUE
    ELSE IF s1[1] = s2[1] THEN StrLess(Tail(s1), Tail(s2))
    ELSE Ord(s1[1]) < Ord(s2[1])

-----------------------------------------------------------------------------
(* GET /stream/<filename>: range parsing and the body generator            *)

ChunkSize == 8192

\* How many whole chunks the largest streamed file spans.
MaxChunks == 2

BytesEq == <<"b", "y", "t", "e", "s", "=">>

\* The bytes of a stored file: a fixed content per name, different at
\* neighbouring offsets.  Offsets are 1-based here, 0-based in the code.
FileBytes(name, size) == [i \in 1..size |-> ((i - 1) * 31 + Len(name)) % 256]

\* re.search(r'bytes=(\d+)-(\d*)', h) matching at position i: the literal,
\* the longest non-empty run of digits (a shorter run is followed by a
\* digit, never by "-"), the "-", and the longest run of digits after it.
RangeMatchAt(h, i) ==
    /\ MatchesAt(h, i, BytesEq)
    /\ DigitRun(h, i + 6) >= 1
    /\ i + 6 + DigitRun(h, i + 6) <= Len(h)
    /\ h[i + 6 + DigitRun(h, i + 6)] = "-"

HasRangeMatch(h) == \E i \in 1..Len(h) : RangeMatchAt(h, i)

\* re.search returns the leftmost match
RangeMatchPos(h) ==
    CHOOSE i \in 1..Len(h) :
        RangeMatchAt(h, i) /\ \A k \in 1..(i - 1) : ~RangeMatchAt(h, k)

\* match.group(1)
RangeGroup1(h) ==
    LET i == RangeMatchPos(h)
        n == DigitRun(h, i + 6)
    IN  SubSeq(h, i + 6, i + 5 + n)

\* match.group(2)
RangeGroup2(h) ==
    LET i == RangeMatchPos(h)
        s == i + 7 + DigitRun(h, i + 6)
    IN  SubSeq(h, s, s + DigitRun(h, s) - 1)

\* `if range_header:` is false for None and for the empty string
RangeGiven(h) == h # None /\ h # <<>>

ByteStart(h, file_size) ==
    IF RangeGiven(h) /\ HasRangeMatch(h) THEN ParseInt(RangeGroup1(h)) ELSE 0

ByteEnd_DefaultsToSize(h, file_size) ==
    IF RangeGiven(h) /\ HasRangeMatch(h) /\ RangeGroup2(h) # <<>>
    THEN ParseInt(RangeGroup2(h))
    ELSE file_size

ByteEnd(h, file_size) ==
    IF RangeGiven(h) /\ HasRangeMatch(h) /\ RangeGroup2(h) # <<>>
    THEN ParseInt(RangeGroup2(h))
    ELSE file_size - 1

\* f.read(n) of a regular file of f_size bytes at offset pos
FileRead(name, size, pos, n) ==
    IF pos >= size THEN <<>>
    ELSE SubSeq(FileBytes(name, size), pos + 1, Min(pos + n, size))

RECURSIVE Flatten(_)
Flatten(chunks) == IF chunks = <<>> THEN <<>> ELSE Head(chunks) \o Flatten(Tail(chunks))

\* The request arrives: Flask routes it to stream_video(filename).
StreamRequest(fn, h) ==
    /\ st_pc = "idle"
    /\ st_filename' = fn
    /\ st_range' = h
    /\ st_pc' = "exists"
    /\ UNCHANGED <<st_size, byte_start, byte_end, content_length, f_pos, remaining,
                   body, st_status>>
    /\ UNCHANGED <<storeVars, sweepVars, chatVars, flight, fetch, djangoVars>>

\* if not file_path.exists(): return 404
StreamExists ==
    /\ st_pc = "exists"
    /\ IF st_filename \in DOMAIN files
       THEN st_pc' = "respond" /\ st_status' = st_status
       ELSE st_pc' = "done" /\ st_status' = 404
    /\ UNCHANGED <<st_filename, st_range, st_size, byte_start, byte_end,
                   content_length, f_pos, remaining, body>>
    /\ UNCHANGED <<storeVars, sweepVars, chatVars, flight, fetch, djangoVars>>

StreamRespond_Validates ==
    /\ st_pc = "respond"
    /\ IF st_filename \in DOMAIN files
       THEN LET file_size == files[st_filename].size
                bs == ByteStart(st_range, file_size)
                be == ByteEnd(st_range, file_size)
            IN  /\ st_size' = file_size
                /\ byte_start' = bs
                /\ byte_end' = be
                /\ content_length' = be - bs + 1
                /\ st_status' = IF bs > be \/ bs >= file_size THEN 416 ELSE 206
                /\ st_pc' = IF bs > be \/ bs >= file_size THEN "done" ELSE "open"
       ELSE /\ st_pc' = "error"
            /\ st_status' = 500
            /\ UNCHANGED <<st_size, byte_start, byte_end, content_length>>
    /\ UNCHANGED <<st_filename, st_range, f_pos, remaining, body>>
    /\ UNCHANGED <<storeVars, sweepVars, chatVars, flight, fetch, djangoVars>>

\* stat, the range parse, content_length and the Response object; the
\* generator has not run yet.  stat() of a file that is gone raises, which
\* no handler of the route catches.
StreamRespond ==
    /\ st_pc = "respond"
    /\ IF st_filename \in DOMAIN files
       THEN LET file_size == files[st_filename].size
                bs == ByteStart(st_range, file_size)
                be == ByteEnd(st_range, file_size)
            IN  /\ st_size' = file_size
                /\ byte_start' = bs
                /\ byte_end' = be
                /\ content_length' = be - bs + 1
                /\ st_status' = 206
                /\ st_pc' = "open"
       ELSE /\ st_pc' = "error"
            /\ st_status' = 500
            /\ UNCHANGED <<st_size, byte_start, byte_end, content_length>>
    /\ UNCHANGED <<st_filename, st_range, f_pos, remaining, body>>
    /\ UNCHANGED <<storeVars, sweepVars, chatVars, flight, fetch, djangoVars>>

GenOpen_NoSeek ==
    /\ st_pc = "open"
    /\ IF st_filename \in DOMAIN files
       THEN /\ f_pos' = 0
            /\ remaining' = content_length
            /\ st_pc' = "loop"
       ELSE /\ st_pc' = "error"
            /\ UNCHANGED <<f_pos, remaining>>
    /\ UNCHANGED <<st_filename, st_range, st_size, byte_start, byte_end,
                   content_length, body, st_status>>
    /\ UNCHANGED <<storeVars, sweepVars, chatVars, flight, fetch, djangoVars>>

\* generate(): open(file_path, 'rb'), f.seek(byte_start), remaining = content_length
GenOpen ==
    /\ st_pc = "open"
    /\ IF st_filename \in DOMAIN files
       THEN /\ f_pos' = byte_start
            /\ remaining' = content_length
            /\ st_pc' = "loop"
       ELSE /\ st_pc' = "error"
            /\ UNCHANGED <<f_pos, remaining>>
    /\ UNCHANGED <<st_filename, st_range, st_size, byte_start, byte_end,
                   content_length, body, st_status>>
    /\ UNCHANGED <<storeVars, sweepVars, chatVars, flight, fetch, djangoVars>>

GenRead_WholeChunks ==
    /\ st_pc = "loop"
    /\ IF remaining > 0
       THEN LET chunk_size == ChunkSize
                data == FileRead(st_filename, st_size, f_pos, chunk_size)
            IN  IF data = <<>>
                THEN st_pc' = "done" /\ UNCHANGED <<remaining, f_pos, body>>
                ELSE /\ remaining' = remaining - Len(data)
                     /\ f_pos' = f_pos + Len(data)
                     /\ body' = Append(body, data)
                     /\ st_pc' = "loop"
       ELSE st_pc' = "done" /\ UNCHANGED <<remaining, f_pos, body>>
    /\ UNCHANGED <<st_filename, st_range, st_size, byte_start, byte_end,
                   content_length, st_status>>
    /\ UNCHANGED <<storeVars, sweepVars, chatVars, flight, fetch, djangoVars>>

\* one test of `while remaining > 0` and, when it holds, one iteration.
\* The open file keeps its bytes when its name is unlinked.
GenRead ==
    /\ st_pc = "loop"
    /\ IF remaining > 0
       THEN LET chunk_size == Min(ChunkSize, remaining)
                data == FileRead(st_filename, st_size, f_pos, chunk_size)
            IN  IF data = <<>>
                THEN st_pc' = "done" /\ UNCHANGED <<remaining, f_pos, body>>
                ELSE /\ remaining' = remaining - Len(data)
                     /\ f_pos' = f_pos + Len(data)
                     /\ body' = Append(body, data)
                     /\ st_pc' = "loop"
       ELSE st_pc' = "done" /\ UNCHANGED <<remaining, f_pos, body>>
    /\ UNCHANGED <<st_filename, st_range, st_size, byte_start, byte_end,
                   content_length, st_status>>
    /\ UNCHANGED <<storeVars, sweepVars, chatVars, flight, fetch, djangoVars>>

-----------------------------------------------------------------------------
(* Initial values shared by the specifications                             *)

Clients == {"A", "B"}

\* A browser that has made no request yet: the Flask session holds no key.
\* `has` is the set of keys present in the session.
EmptyDict == <<>>

EmptyCookie == [has |-> {}, session_id |-> None, video_transcriptions |-> EmptyDict,
                video_analysis |-> EmptyDict, video_transcript |-> None]

SweepIdle ==
    /\ sw_pc = "sleep"
    /\ sw_time = 0
    /\ sw_todo = {}
    /\ sw_cur = None
    /\ sw_wake = 0
    /\ sw_log = [name |-> None, age |-> 0]

StreamIdle ==
    /\ st_pc = "idle"
    /\ st_filename = None
    /\ st_range = None
    /\ st_size = 0
    /\ byte_start = 0
    /\ byte_end = 0
    /\ content_length = 0
    /\ f_pos = 0
    /\ remaining = 0
    /\ body = <<>>
    /\ st_status = 0

ChatIdle ==
    /\ ch_pc = "idle"
    /\ ch_client = "A"
    /\ ch_events = <<>>
    /\ ch_items = <<>>
    /\ ch_failed = FALSE

\* The requests that can be in flight at the same time.
Flights == {"r1", "r2"}

IdleFlight ==
    [pc |-> "idle", op |-> "none", client |-> "A", ck |-> EmptyCookie,
     filename |-> None, mode |-> None, outcome |-> "none", sid |-> None,
     raw |-> <<>>, resp |-> [op |-> "none"]]

FlightIdle == flight = [r \in Flights |-> IdleFlight]

\* languages=['pt', 'en', 'es']
PreferredLanguages == <<"pt", "en", "es">>

IdleFetch == [pc |-> "idle", client |-> "A", language |-> 1, listed |-> 0,
              attempts |-> <<>>, result |-> "none"]

FetchIdle == fetch = IdleFetch

\* The requests of the Django index view the model follows.
MaxRecords == 2

DownloadIds == 1..MaxRecords

\* The fields of a Download the downloader reads or writes. nulls holds the
\* names of the fields that are None.
\* models.py: status default 'pending', file_path and error_message blank
NewDownload ==
    [status |-> "pending", title |-> <<>>, file_path |-> <<>>,
     error_message |-> <<>>, nulls |-> {}]

\* a request that has not been made
NoRequest == [pc |-> "none", obj |-> NewDownload, returncode |-> 0,
              stderr |-> <<>>, returned |-> FALSE]

DjangoIdle ==
    /\ Download_objects = <<>>
    /\ download_obj = [id \in DownloadIds |-> NoRequest]
    /\ downloads_dir = <<>>

-----------------------------------------------------------------------------
(* File names: pathlib and the sanitising of titles                        *)

\* The part of a client-supplied path after its last "/" (Path(...).name)
RECURSIVE BaseName(_)
BaseName(s) ==
    IF \E i \in 1..Len(s) : s[i] = "/"
    THEN BaseName(SubSeq(s, (CHOOSE i \in 1..Len(s) : s[i] = "/") + 1, Len(s)))
    ELSE s

\* name.rfind('.') as a 1-based position, 0 when there is no dot
LastDot(name) ==
    IF \E i \in 1..Len(name) : name[i] = "."
    THEN CHOOSE i \in 1..Len(name) :
            name[i] = "." /\ \A k \in (i + 1)..Len(name) : name[k] # "."
    ELSE 0

\* pathlib: the suffix starts at the last dot, unless that dot is the first
\* or the last character of the name.
HasSuffix(name) == 1 < LastDot(name) /\ LastDot(name) < Len(name)

\* Path(s).suffix
Suffix(s) ==
    LET name == BaseName(s)
    IN  IF HasSuffix(name) THEN SubSeq(name, LastDot(name), Len(name)) ELSE <<>>

\* Path(s).stem
Stem(s) ==
    LET name == BaseName(s)
    IN  IF HasSuffix(name) THEN SubSeq(name, 1, LastDot(name) - 1) ELSE name

\* "".join(c for c in s if c.isalnum() or c in (' ', '-', '_'))
RECURSIVE KeepSafe(_)
KeepSafe(s) ==
    IF s = <<>> THEN <<>>
    ELSE IF IsAlnum(Head(s)) \/ Head(s) \in {" ", "-", "_"}
         THEN <<Head(s)>> \o KeepSafe(Tail(s))
         ELSE KeepSafe(Tail(s))

\* str.rstrip()
RECURSIVE RStrip(_)
RStrip(s) ==
    IF s # <<>> /\ s[Len(s)] = " " THEN RStrip(SubSeq(s, 1, Len(s) - 1)) ELSE s

MaxStem == 100

\* KeepSafe(...).rstrip()[:100]
Sanitize(s) == SubSeq(RStrip(KeepSafe(s)), 1, Min(Len(RStrip(KeepSafe(s))), MaxStem))

ExtMp4 == <<".", "m", "p", "4">>

ExtWebm == <<".", "w", "e", "b", "m">>

\* f"{safe}_{timestamp}{ext}"
FileName(safe, timestamp, ext) == safe \o <<"_">> \o Digits(timestamp) \o ext

AllowedExtensions_WithTxt ==
    {ExtMp4, <<".", "a", "v", "i">>, <<".", "m", "o", "v">>, <<".", "m", "k", "v">>,
     ExtWebm, <<".", "t", "x", "t">>}

\* allowed_extensions of upload_video
AllowedExtensions ==
    {ExtMp4, <<".", "a", "v", "i">>, <<".", "m", "o", "v">>, <<".", "m", "k", "v">>,
     ExtWebm}

\* 500 MB in bytes: st_size / (1024 * 1024) > 500 is exact in floating
\* point (a division by a power of two), so it is st_size > 500 * 1024 * 1024.
UploadLimit == 524288000

IsPrefix_Never(p, s) == FALSE

\* a name the glob pattern p* matches
IsPrefix(p, s) == MatchesAt(s, 1, p)

\* dict without a key, dict.pop(key, None)
DictRemove(d, k) == [x \in (DOMAIN d) \ {k} |-> d[x]]

\* d[k] = v
DictPut(d, k, v) == [x \in (DOMAIN d) \cup {k} |-> IF x = k THEN v ELSE d[x]]

\* sorted(names, reverse=True) of list.sort(key=name, reverse=True): a
\* stable insertion into descending order.
InsertDesc_Front(x, sorted) == <<x>> \o sorted

\* x goes behind the elements that are not smaller than it
InsertDesc(x, sorted) ==
    LET k == Cardinality({i \in 1..Len(sorted) : ~StrLess(sorted[i], x)})
    IN  SubSeq(sorted, 1, k) \o <<x>> \o SubSeq(sorted, k + 1, Len(sorted))

RECURSIVE SortDesc(_)
SortDesc(seq) ==
    IF seq = <<>> THEN <<>>
    ELSE InsertDesc(seq[Len(seq)], SortDesc(SubSeq(seq, 1, Len(seq) - 1)))

\* the elements of a list
Elems(seq) == {seq[i] : i \in 1..Len(seq)}

\* the sublist of the elements that satisfy membership in S, in order
RECURSIVE FilterIn(_, _)
FilterIn(seq, S) ==
    IF seq = <<>> THEN <<>>
    ELSE IF Head(seq) \in S THEN <<Head(seq)>> \o FilterIn(Tail(seq), S)
         ELSE FilterIn(Tail(seq), S)

-----------------------------------------------------------------------------
(* The session of a browser and the registry session_files                 *)

\* if 'session_id' not in session: session['session_id'] = secrets.token_hex(16)
SessionId(c) ==
    IF "session_id" \in cookie[c].has THEN cookie[c].session_id ELSE Token(tokens + 1)

CookieWithSession(c) ==
    [cookie[c] EXCEPT !.has = @ \cup {"session_id"}, !.session_id = SessionId(c)]

TokensAfterSession(c) == IF "session_id" \in cookie[c].has THEN tokens ELSE tokens + 1

\* if session_id not in session_files: session_files[session_id] = []
\* session_files[session_id].append(filename)
RecordOwnership(sf, sid, filename) ==
    DictPut(sf, sid, Append(IF sid \in DOMAIN sf THEN sf[sid] ELSE <<>>, filename))

\* if 'video_transcriptions' not in session: session['video_transcriptions'] = {}
\* session['video_transcriptions'][filename] = transcript
CacheTranscript(ck, filename, transcript) ==
    [ck EXCEPT !.has = @ \cup {"video_transcriptions"},
               !.video_transcriptions = DictPut(@, filename, transcript)]

\* The filenames a browser's session owns according to the registry.
OwnedList(c) ==
    IF "session_id" \in cookie[c].has /\ cookie[c].session_id \in DOMAIN session_files
    THEN session_files[cookie[c].session_id]
    ELSE <<>>

\* Bounds of the model: the files in the store, and what one session
\* acquires, between two cleanups, and caches.
MaxFiles == 2

MaxOwned == 2

WithinBounds(c, store) ==
    /\ Cardinality(DOMAIN store) <= MaxFiles
    /\ Len(OwnedList(c)) < MaxOwned
    /\ Cardinality(acquired[c]) < MaxOwned
    /\ Cardinality(DOMAIN cookie[c].video_transcriptions) < MaxOwned

-----------------------------------------------------------------------------
(* POST /upload                                                            *)

OversizeStore_Kept(saved, filename) == saved

\* file_path.unlink() of the file that was just saved
OversizeStore(saved, filename) == DictRemove(saved, filename)

UploadRejected(c, raw, why, steps) ==
    [op |-> "upload", client |-> c, status |-> 400, req |-> raw,
     error |-> why, filename |-> None, steps |-> steps]

Upload(c, has_file, raw, size) ==
    LET file_ext == Lower(Suffix(raw))
        filename == FileName(Sanitize(Stem(raw)), now, file_ext)
        saved    == DictPut(files, filename, [size |-> size, mtime |-> now])
        sid      == SessionId(c)
    IN  /\ WithinBounds(c, saved)
        /\ IF ~has_file
           THEN /\ resp' = UploadRejected(c, raw, "No video file provided", <<>>)
                /\ UNCHANGED <<files, session_files, cookie, tokens, acquired>>
           ELSE IF raw = <<>>
           THEN /\ resp' = UploadRejected(c, raw, "No file selected", <<>>)
                /\ UNCHANGED <<files, session_files, cookie, tokens, acquired>>
           ELSE IF file_ext \notin AllowedExtensions
           THEN /\ resp' = UploadRejected(c, raw, "Invalid file type", <<>>)
                /\ UNCHANGED <<files, session_files, cookie, tokens, acquired>>
           ELSE IF size > UploadLimit
           THEN \* saved, measured, unlinked
                /\ files' = OversizeStore(saved, filename)
                /\ resp' = UploadRejected(c, raw, "File size exceeds 500MB limit",
                                          <<"save", "unlink">>)
                /\ UNCHANGED <<session_files, cookie, tokens, acquired>>
           ELSE /\ files' = saved
                /\ cookie' = [cookie EXCEPT ![c] = CookieWithSession(c)]
                /\ tokens' = TokensAfterSession(c)
                /\ session_files' = RecordOwnership(session_files, sid, filename)
                /\ acquired' = [acquired EXCEPT ![c] = @ \cup {filename}]
                /\ resp' = [op |-> "upload", client |-> c,
                            status |-> 200, req |-> raw, error |-> "",
                            filename |-> filename,
                            steps |-> <<"save", "session", "record", "probe">>]
        /\ UNCHANGED <<now, backend_calls>>
        /\ UNCHANGED <<sweepVars, streamVars, chatVars, flight, fetch, djangoVars>>

-----------------------------------------------------------------------------
(* POST /upload of requests that overlap: the accepted upload of a file    *)
(* within the size limit, one statement of app.py:259-274 per step. Each   *)
(* request runs in its own thread on the session cookie it carried.        *)

\* the browser sends the request
UploadSend(r, c, raw) ==
    /\ flight[r].pc = "idle"
    /\ WithinBounds(c, files)
    /\ flight' = [flight EXCEPT ![r] =
                    [IdleFlight EXCEPT !.pc = "sent", !.op = "upload", !.client = c,
                                       !.ck = cookie[c], !.raw = raw]]
    /\ UNCHANGED <<storeVars, sweepVars, streamVars, chatVars, fetch, djangoVars>>

\* the file is saved; if 'session_id' not in session: a session id is minted
UploadSession(r) ==
    LET q        == flight[r]
        filename == FileName(Sanitize(Stem(q.raw)), now, Lower(Suffix(q.raw)))
        fresh    == "session_id" \notin q.ck.has
        sid      == IF fresh THEN Token(tokens + 1) ELSE q.ck.session_id
    IN  /\ q.pc = "sent"
        /\ q.op = "upload"
        /\ files' = DictPut(files, filename, [size |-> 1, mtime |-> now])
        /\ tokens' = IF fresh THEN tokens + 1 ELSE tokens
        /\ flight' = [flight EXCEPT
                        ![r].pc = "check", ![r].filename = filename, ![r].sid = sid,
                        ![r].ck = [q.ck EXCEPT !.has = @ \cup {"session_id"},
                                               !.session_id = sid]]
        /\ UNCHANGED <<now, session_files, cookie, resp, acquired, backend_calls>>
        /\ UNCHANGED <<sweepVars, streamVars, chatVars, fetch, djangoVars>>

\* if session_id not in session_files
UploadCheck(r) ==
    /\ flight[r].pc = "check"
    /\ flight' = [flight EXCEPT ![r].pc = IF flight[r].sid \in DOMAIN session_files
                                          THEN "append" ELSE "create"]
    /\ UNCHANGED <<storeVars, sweepVars, streamVars, chatVars, fetch, djangoVars>>

\* session_files[session_id] = []
UploadCreate(r) ==
    /\ flight[r].pc = "create"
    /\ session_files' = DictPut(session_files, flight[r].sid, <<>>)
    /\ flight' = [flight EXCEPT ![r].pc = "append"]
    /\ UNCHANGED <<now, files, cookie, tokens, resp, acquired, backend_calls>>
    /\ UNCHANGED <<sweepVars, streamVars, chatVars, fetch, djangoVars>>

\* session_files[session_id].append(filename), and the response is built
UploadAppend(r) ==
    LET q == flight[r]
    IN  /\ q.pc = "append"
        /\ q.sid \in DOMAIN session_files
        /\ session_files' = DictPut(session_files, q.sid,
                                    Append(session_files[q.sid], q.filename))
        /\ flight' = [flight EXCEPT
                        ![r].pc = "handled",
                        ![r].resp = [op |-> "upload", client |-> q.client,
                                     status |-> 200, req |-> q.raw, error |-> "",
                                     filename |-> q.filename,
                                     steps |-> <<"save", "session", "record", "probe">>]]
        /\ UNCHANGED <<now, files, cookie, tokens, resp, acquired, backend_calls>>
        /\ UNCHANGED <<sweepVars, streamVars, chatVars, fetch, djangoVars>>

\* the browser receives the response and stores its cookie
UploadReceive(r) ==
    LET q == flight[r]
    IN  /\ q.pc = "handled"
        /\ q.op = "upload"
        /\ cookie' = [cookie EXCEPT ![q.client] = q.ck]
        /\ acquired' = [acquired EXCEPT ![q.client] = @ \cup {q.filename}]
        /\ resp' = q.resp
        /\ flight' = [flight EXCEPT ![r] = IdleFlight]
        /\ UNCHANGED <<now, files, session_files, tokens, backend_calls>>
        /\ UNCHANGED <<sweepVars, streamVars, chatVars, fetch, djangoVars>>

-----------------------------------------------------------------------------
(* POST /download                                                          *)

PlaceholderTitle == <<"v", "i", "d", "e", "o">>

SignInPattern ==
    <<"S", "i", "g", "n", " ", "i", "n", " ", "t", "o", " ", "c", "o", "n",
      "f", "i", "r", "m">>

BotPattern == <<"b", "o", "t">>

FailedToExtract ==
    <<"F", "a", "i", "l", "e", "d", " ", "t", "o", " ", "e", "x", "t", "r",
      "a", "c", "t">>

\* the text that replaces result.stderr at app.py:507
BothFailedMsg ==
    <<"B", "o", "t", "h", " ", "y", "t", "-", "d", "l", "p", " ", "a", "n",
      "d", " ", "p", "y", "t", "u", "b", "e", "f", "i", "x", " ", "f", "a",
      "i", "l", "e", "d", " ", "t", "o", " ", "d", "o", "w", "n", "l", "o",
      "a", "d", ".", " ", "P", "l", "e", "a", "s", "e", " ", "t", "r", "y",
      " ", "a", " ", "d", "i", "f", "f", "e", "r", "e", "n", "t", " ", "v",
      "i", "d", "e", "o", " ", "o", "r", " ", "w", "a", "i", "t", " ", "a",
      "n", "d", " ", "r", "e", "t", "r", "y", ".">>

UnknownError == <<"U", "n", "k", "n", "o", "w", "n", " ", "e", "r", "r", "o", "r">>

\* 'Erro no download'
DownloadErrorText ==
    <<"E", "r", "r", "o", " ", "n", "o", " ", "d", "o", "w", "n", "l", "o",
      "a", "d">>

StderrBot ==
    <<"E", "R", "R", "O", "R", ":", " ", "S", "i", "g", "n", " ", "i", "n",
      " ", "t", "o", " ", "c", "o", "n", "f", "i", "r", "m", " ", "y", "o",
      "u", "'", "r", "e", " ", "n", "o", "t", " ", "a", " ", "b", "o", "t">>

StderrExtract ==
    <<"E", "R", "R", "O", "R", ":", " ", "F", "a", "i", "l", "e", "d", " ",
      "t", "o", " ", "e", "x", "t", "r", "a", "c", "t", " ", "a", "n", "y",
      " ", "p", "l", "a", "y", "e", "r", " ", "r", "e", "s", "p", "o", "n",
      "s", "e">>

StderrOther ==
    <<"E", "R", "R", "O", "R", ":", " ", "V", "i", "d", "e", "o", " ", "u",
      "n", "a", "v", "a", "i", "l", "a", "b", "l", "e">>

ErrorTextMax == 500

\* 'Download demorou muito tempo'
TimeoutText ==
    <<"D", "o", "w", "n", "l", "o", "a", "d", " ", "d", "e", "m", "o", "r",
      "o", "u", " ", "m", "u", "i", "t", "o", " ", "t", "e", "m", "p", "o">>

\* 'Arquivo nao encontrado apos download' (the accents are left out)
NotFoundAfterDownload ==
    <<"A", "r", "q", "u", "i", "v", "o", " ", "n", "a", "o", " ", "e", "n",
      "c", "o", "n", "t", "r", "a", "d", "o", " ", "a", "p", "o", "s", " ",
      "d", "o", "w", "n", "l", "o", "a", "d">>

\* 'URL e obrigatoria' (the accents are left out)
UrlRequired ==
    <<"U", "R", "L", " ", "e", " ", "o", "b", "r", "i", "g", "a", "t", "o",
      "r", "i", "a">>

\* A stderr whose first 500 characters are other output and which names the
\* bot check after them.
StderrLateBot == [i \in 1..ErrorTextMax |-> "x"] \o StderrBot

\* p in s
Contains(s, p) == \E i \in 1..(Len(s) - Len(p) + 1) : MatchesAt(s, i, p)

\* 'Sign in to confirm' in error_msg or 'bot' in error_msg.lower()
IsBotError(error_msg) ==
    Contains(error_msg, SignInPattern) \/ Contains(Lower(error_msg), BotPattern)

\* An outcome of the external tools of one POST /download:
\*   url       whether the body carries a url
\*   tr        the caption fetch: "skipped" (the url is not a YouTube url),
\*             "none", "text" or "blocked"
\*   probe     yt-dlp --dump-json: "ok", "nonzero", "badjson" or "timeout"
\*   title     the title of the probe's JSON
\*   primary   yt-dlp: "file" (exit 0, the file is at output_path), "altered"
\*             (exit 0, the file has another extension), "nofile" (exit 0,
\*             nothing written), "fail" (non-zero exit), "failaltered"
\*             (non-zero exit, a file with another extension is left),
\*             "timeout"
\*   stderr    yt-dlp's stderr
\*   fallback  pytubefix: "ok", "nostream" (returns without a file), "raise"
TranscriptText == <<"t", "e", "x", "t">>

\* the marker get_youtube_transcript returns for a blocked fetch
IpBlocked == <<"I", "P", "_", "B", "L", "O", "C", "K", "E", "D">>

YoutubeTranscript_KeepsMarker(d) ==
    IF d.tr = "text" THEN TranscriptText
    ELSE IF d.tr = "blocked" THEN IpBlocked
    ELSE None

\* youtube_transcript after the optional fetch: the text, or None when the
\* url has no video id, no transcript was found, or the fetch was blocked
\* (the marker "IP_BLOCKED" is replaced by None)
YoutubeTranscript(d) ==
    IF d.tr = "text" THEN TranscriptText
    ELSE None

FallbackAttempted_OnTimeout(d) == d.primary \in {"fail", "failaltered", "timeout"}

\* if result.returncode != 0: the fallback is tried
FallbackAttempted(d) == d.primary \in {"fail", "failaltered"}

DownloadSteps_ProbeFirst(d) ==
    IF ~d.url THEN <<>>
    ELSE <<"probe">>
         \o (IF d.tr = "skipped" THEN <<>> ELSE <<"transcript">>)
         \o (IF d.probe = "timeout" THEN <<>>
             ELSE <<"primary">>
                  \o (IF FallbackAttempted(d) THEN <<"fallback">> ELSE <<>>))

\* The external steps one request runs, in order.
DownloadSteps(d) ==
    IF ~d.url THEN <<>>
    ELSE (IF d.tr = "skipped" THEN <<>> ELSE <<"transcript">>)
         \o <<"probe">>
         \o (IF d.probe = "timeout" THEN <<>>
             ELSE <<"primary">>
                  \o (IF FallbackAttempted(d) THEN <<"fallback">> ELSE <<>>))

DownloadFailed(c, d, status, error_msg, bot) ==
    [op |-> "download", client |-> c, req |-> d, status |-> status,
     error |-> error_msg, filename |-> None, help_link |-> bot,
     has_youtube_transcript |-> FALSE, recorded |-> FALSE,
     steps |-> DownloadSteps(d)]

ProbedTitle_Unchecked(d) == d.title

\* title = video_info['title'] when the probe exits 0 and its output is
\* parsed; title = 'video' otherwise
ProbedTitle(d) == IF d.probe = "ok" THEN d.title ELSE PlaceholderTitle

Download(c, d) ==
    LET youtube_transcript == YoutubeTranscript(d)
        title      == ProbedTitle(d)
        safe_title == Sanitize(title)
        filename   == FileName(safe_title, now, ExtMp4)
        pattern    == safe_title \o <<"_">> \o Digits(now)
        written    == [size |-> 1, mtime |-> now]
        \* the primary attempt
        files1     == IF d.primary = "file" THEN DictPut(files, filename, written)
                      ELSE IF d.primary \in {"altered", "failaltered"}
                      THEN DictPut(files, FileName(safe_title, now, ExtWebm), written)
                      ELSE files
        failed1    == FallbackAttempted(d)
        steps      == DownloadSteps(d)
        error_msg1 == IF d.stderr # <<>> THEN d.stderr ELSE UnknownError
        \* the fallback attempt, made when the primary exit status is not 0
        files2     == IF failed1 /\ d.fallback = "ok"
                      THEN DictPut(files1, filename, written) ELSE files1
        returncode0 == ~failed1 \/ d.fallback = "ok"
        stderr2    == IF failed1 /\ d.fallback = "raise" /\ ~IsBotError(error_msg1)
                         /\ Contains(error_msg1, FailedToExtract)
                      THEN BothFailedMsg ELSE d.stderr
        matches    == {f \in DOMAIN files2 : IsPrefix(pattern, f)}
        error_msg  == IF stderr2 # <<>>
                      THEN SubSeq(stderr2, 1, Min(Len(stderr2), ErrorTextMax))
                      ELSE DownloadErrorText
        sid        == SessionId(c)
    IN  /\ WithinBounds(c, files2)
        /\ IF ~d.url
           THEN /\ resp' = DownloadFailed(c, d, 400, UrlRequired, FALSE)
                /\ UNCHANGED <<files, session_files, cookie, tokens, acquired>>
           ELSE IF d.probe = "timeout" \/ d.primary = "timeout"
           THEN /\ resp' = DownloadFailed(c, d, 500, TimeoutText, FALSE)
                /\ UNCHANGED <<files, session_files, cookie, tokens, acquired>>
           ELSE IF returncode0 /\ filename \in DOMAIN files2
           THEN /\ files' = files2
                /\ tokens' = TokensAfterSession(c)
                /\ session_files' = RecordOwnership(session_files, sid, filename)
                /\ cookie' = [cookie EXCEPT ![c] =
                                IF youtube_transcript # None
                                THEN CacheTranscript(CookieWithSession(c), filename,
                                                     youtube_transcript)
                                ELSE CookieWithSession(c)]
                /\ acquired' = [acquired EXCEPT ![c] = @ \cup {filename}]
                /\ resp' = [op |-> "download", client |-> c,
                            status |-> 200, error |-> None, filename |-> filename,
                            help_link |-> FALSE,
                            has_youtube_transcript |-> youtube_transcript # None,
                            recorded |-> TRUE, steps |-> steps, req |-> d]
           ELSE IF returncode0 /\ matches # {}
           THEN \* files[0] of the glob, in directory order
                \E found \in matches :
                    /\ files' = files2
                    /\ cookie' = [cookie EXCEPT ![c] =
                                    IF youtube_transcript # None
                                    THEN CacheTranscript(cookie[c], found,
                                                         youtube_transcript)
                                    ELSE cookie[c]]
                    /\ acquired' = [acquired EXCEPT ![c] = @ \cup {found}]
                    /\ resp' = [op |-> "download", client |-> c,
                                status |-> 200, error |-> None, filename |-> found,
                                help_link |-> FALSE,
                                has_youtube_transcript |-> youtube_transcript # None,
                                recorded |-> FALSE, steps |-> steps, req |-> d]
                    /\ UNCHANGED <<session_files, tokens>>
           ELSE IF returncode0
           THEN /\ files' = files2
                /\ resp' = DownloadFailed(c, d, 500, NotFoundAfterDownload, FALSE)
                /\ UNCHANGED <<session_files, cookie, tokens, acquired>>
           ELSE IF IsBotError(error_msg)
           THEN /\ files' = files2
                /\ resp' = DownloadFailed(c, d, 429, error_msg, TRUE)
                /\ UNCHANGED <<session_files, cookie, tokens, acquired>>
           ELSE /\ files' = files2
                /\ resp' = DownloadFailed(c, d, 500, error_msg, FALSE)
                /\ UNCHANGED <<session_files, cookie, tokens, acquired>>
        /\ UNCHANGED <<now, backend_calls>>
        /\ UNCHANGED <<sweepVars, streamVars, chatVars, flight, fetch, djangoVars>>

-----------------------------------------------------------------------------
(* POST /cleanup and GET /list-downloads                                   *)

Cleanup_KeepsRegistry(c) ==
    /\ IF "session_id" \in cookie[c].has /\ cookie[c].session_id \in DOMAIN session_files
       THEN /\ files' = [f \in (DOMAIN files) \ Elems(session_files[cookie[c].session_id])
                            |-> files[f]]
            /\ session_files' = session_files
       ELSE UNCHANGED <<files, session_files>>
    /\ resp' = [op |-> "cleanup", client |-> c, status |-> 200]
    /\ acquired' = [acquired EXCEPT ![c] = {}]
    /\ UNCHANGED <<now, cookie, tokens, backend_calls>>
    /\ UNCHANGED <<sweepVars, streamVars, chatVars, flight, fetch, djangoVars>>

\* The loop unlinks every listed file that exists; then the session's entry
\* is popped from the registry.
Cleanup(c) ==
    /\ IF "session_id" \in cookie[c].has /\ cookie[c].session_id \in DOMAIN session_files
       THEN /\ files' = [f \in (DOMAIN files) \ Elems(session_files[cookie[c].session_id])
                            |-> files[f]]
            /\ session_files' = DictRemove(session_files, cookie[c].session_id)
       ELSE UNCHANGED <<files, session_files>>
    /\ resp' = [op |-> "cleanup", client |-> c, status |-> 200]
    /\ acquired' = [acquired EXCEPT ![c] = {}]
    /\ UNCHANGED <<now, cookie, tokens, backend_calls>>
    /\ UNCHANGED <<sweepVars, streamVars, chatVars, flight, fetch, djangoVars>>

\* The names of the listed entries, sorted by name in descending order.
ListDownloads(c) ==
    /\ resp' = [op |-> "list", client |-> c, status |-> 200,
                files |-> SortDesc(FilterIn(OwnedList(c), DOMAIN files))]
    /\ UNCHANGED <<now, files, session_files, cookie, tokens, acquired, backend_calls>>
    /\ UNCHANGED <<sweepVars, streamVars, chatVars, flight, fetch, djangoVars>>

-----------------------------------------------------------------------------
(* POST /analyze                                                           *)

SummaryMode == <<"s", "u", "m", "m", "a", "r", "y">>

TranscriptMode == <<"t", "r", "a", "n", "s", "c", "r", "i", "p", "t">>

\* mode = data.get('mode', 'summary')
ModeOf(mode) == IF mode = None THEN SummaryMode ELSE mode

CacheKey_FilenameOnly(filename, mode) == filename

\* cache_key = f"{filename}_{mode}"
CacheKey(filename, mode) == filename \o <<"_">> \o mode

\* What video_analyzer.analyze_video returns: a success object stamped with
\* the time, or a failed object.
VideoResult(mode, outcome) ==
    IF outcome = "success"
    THEN [status |-> "success", mode |-> mode, source |-> "video", timestamp |-> now]
    ELSE [status |-> "failed", error |-> "analysis failed"]

\* What video_analyzer.analyze_with_transcript returns, with the key
\* youtube_source the handler adds.
TranscriptResult(mode, outcome) ==
    IF outcome = "success"
    THEN [status |-> "success", mode |-> mode, source |-> "transcript",
          timestamp |-> now, youtube_source |-> TRUE]
    ELSE [status |-> "failed", error |-> "analysis failed", youtube_source |-> TRUE]

\* mode 'transcript' with a cached caption transcript
YoutubeResult(transcript) ==
    [transcript |-> transcript, source |-> "youtube", status |-> "success"]

\* Bound of the model: the invocations of the AI backend.
MaxCalls == 2

\* not value: the field is absent from the body, or empty
Missing_OnlyAbsent(value) == value = None

Missing(value) == value = None \/ value = <<>>

\* 'Filename e obrigatorio' (the accent is left out)
FilenameRequired ==
    <<"F", "i", "l", "e", "n", "a", "m", "e", " ", "e", " ", "o", "b",
      "r", "i", "g", "a", "t", "o", "r", "i", "o">>

\* 'Arquivo nao encontrado' (the accent is left out)
FileNotFound ==
    <<"A", "r", "q", "u", "i", "v", "o", " ", "n", "a", "o", " ", "e",
      "n", "c", "o", "n", "t", "r", "a", "d", "o">>

AnalyzeError(c, status) ==
    [op |-> "analyze", client |-> c, status |-> status, cached |-> FALSE,
     result |-> [status |-> "none"], source |-> "none", backend |-> "none",
     error |-> IF status = 400 THEN FilenameRequired ELSE FileNotFound]

HasTranscript_Never(ck, filename) == FALSE

\* 'video_transcriptions' in session and filename in session['video_transcriptions']
HasTranscript(ck, filename) ==
    /\ "video_transcriptions" \in ck.has
    /\ filename \in DOMAIN ck.video_transcriptions

\* The handler run on the session ck0 its request carried: the session it
\* leaves, its response, and the number of calls of the AI backend it made.
\* The field backend of the response names the analyzer method it invoked.
AnalyzeOn(ck0, c, filename, mode_in, outcome) ==
    LET mode      == ModeOf(mode_in)
        cache_key == CacheKey(filename, mode)
        ck        == [ck0 EXCEPT !.has = @ \cup {"video_analysis"}]
        youtube_transcript == ck0.video_transcriptions[filename]
    IN  IF Missing(filename)
        THEN [cookie |-> ck0, resp |-> AnalyzeError(c, 400), calls |-> 0]
        ELSE IF filename \notin DOMAIN files
        THEN [cookie |-> ck0, resp |-> AnalyzeError(c, 404), calls |-> 0]
        ELSE IF cache_key \in DOMAIN ck.video_analysis
        THEN [cookie |-> ck,
              resp |-> [op |-> "analyze", client |-> c, status |-> 200,
                        cached |-> TRUE, result |-> ck.video_analysis[cache_key],
                        source |-> "none", backend |-> "none"],
              calls |-> 0]
        ELSE IF HasTranscript(ck0, filename) /\ mode = TranscriptMode
        THEN [cookie |-> [ck EXCEPT !.video_analysis =
                             DictPut(@, cache_key, YoutubeResult(youtube_transcript))],
              resp |-> [op |-> "analyze", client |-> c, status |-> 200,
                        cached |-> FALSE, result |-> YoutubeResult(youtube_transcript),
                        source |-> "youtube_transcript", backend |-> "none"],
              calls |-> 0]
        ELSE IF HasTranscript(ck0, filename)
        THEN [cookie |-> [ck EXCEPT !.video_analysis =
                             DictPut(@, cache_key, TranscriptResult(mode, outcome))],
              resp |-> [op |-> "analyze", client |-> c, status |-> 200,
                        cached |-> FALSE, result |-> TranscriptResult(mode, outcome),
                        source |-> "youtube_transcript",
                        backend |-> "analyze_with_transcript"],
              calls |-> 1]
        ELSE [cookie |-> [ck EXCEPT !.video_analysis =
                             DictPut(@, cache_key, VideoResult(mode, outcome)),
                          !.has = IF mode = TranscriptMode
                                  THEN @ \cup {"video_transcript"} ELSE @,
                          !.video_transcript =
                                  IF mode = TranscriptMode
                                  THEN VideoResult(mode, outcome) ELSE @],
              resp |-> [op |-> "analyze", client |-> c, status |-> 200,
                        cached |-> FALSE, result |-> VideoResult(mode, outcome),
                        source |-> "none", backend |-> "analyze_video"],
              calls |-> 1]

Analyze(c, filename, mode_in, outcome) ==
    LET r == AnalyzeOn(cookie[c], c, filename, mode_in, outcome)
    IN  /\ backend_calls + r.calls <= MaxCalls
        /\ backend_calls' = backend_calls + r.calls
        /\ cookie' = [cookie EXCEPT ![c] = r.cookie]
        /\ resp' = r.resp
        /\ UNCHANGED <<now, files, session_files, tokens, acquired>>
        /\ UNCHANGED <<sweepVars, streamVars, chatVars, flight, fetch, djangoVars>>

-----------------------------------------------------------------------------
(* POST /analyze of requests that overlap. The session is a signed cookie: *)
(* a request carries the cookie the browser holds when it is sent, the     *)
(* handler works on that copy, and the response's Set-Cookie replaces the  *)
(* browser's cookie when the handler modified the session.                 *)

\* the browser sends the request
AnalyzeSend(r, c, filename, mode_in, outcome) ==
    /\ flight[r].pc = "idle"
    /\ flight' = [flight EXCEPT ![r] =
                    [IdleFlight EXCEPT !.pc = "sent", !.op = "analyze", !.client = c,
                                       !.ck = cookie[c], !.filename = filename,
                                       !.mode = mode_in, !.outcome = outcome]]
    /\ UNCHANGED <<storeVars, sweepVars, streamVars, chatVars, fetch, djangoVars>>

\* the handler runs, in its own thread, on the session of its request
AnalyzeHandle(r) ==
    LET q   == flight[r]
        res == AnalyzeOn(q.ck, q.client, q.filename, q.mode, q.outcome)
    IN  /\ q.pc = "sent"
        /\ q.op = "analyze"
        /\ backend_calls + res.calls <= MaxCalls
        /\ backend_calls' = backend_calls + res.calls
        /\ flight' = [flight EXCEPT ![r].pc = "handled", ![r].ck = res.cookie,
                                    ![r].resp = res.resp]
        /\ UNCHANGED <<now, files, session_files, cookie, tokens, resp, acquired>>
        /\ UNCHANGED <<sweepVars, streamVars, chatVars, fetch, djangoVars>>

\* the browser receives the response and stores its cookie
AnalyzeReceive(r) ==
    LET q == flight[r]
    IN  /\ q.pc = "handled"
        /\ q.op = "analyze"
        /\ cookie' = [cookie EXCEPT ![q.client] = q.ck]
        /\ resp' = q.resp
        /\ flight' = [flight EXCEPT ![r] = IdleFlight]
        /\ UNCHANGED <<now, files, session_files, tokens, acquired, backend_calls>>
        /\ UNCHANGED <<sweepVars, streamVars, chatVars, fetch, djangoVars>>

-----------------------------------------------------------------------------
(* GET /chat/stream: the handler, then the generator of the response, one  *)
(* event per step                                                          *)

YoutubeCached ==
    <<"Y", "O", "U", "T", "U", "B", "E", "_", "C", "A", "C", "H", "E", "D">>

\* One server-sent event: data: {"type": ..., "content": ...}
Event(type, content) == [type |-> type, content |-> content]

\* The response that consists of one error event (error_stream).
ErrorStream(content) == <<Event("error", content)>>

\* The handler. question and transcription are the query parameters (None
\* when absent); items is what the backend's stream will deliver, in order:
\* "text" (a fragment), "empty" (a fragment without text), "raise" (the
\* backend raises), "unconfigured" (the analyzer has no stream model).
ChatRequest(c, question, transcription, items) ==
    /\ ch_pc \in {"idle", "closed"}
    /\ ch_client' = c
    /\ ch_failed' = FALSE
    /\ IF question = None \/ question = <<>>
       THEN /\ ch_events' = ErrorStream("Question e obrigatorio")
            /\ ch_pc' = "closed"
            /\ ch_items' = <<>>
       ELSE \E tr \in IF /\ transcription = YoutubeCached
                         /\ "video_transcriptions" \in cookie[c].has
                         /\ DOMAIN cookie[c].video_transcriptions # {}
                      THEN \* list(transcripts.values())[-1]
                           {cookie[c].video_transcriptions[f] :
                                f \in DOMAIN cookie[c].video_transcriptions}
                      ELSE {IF transcription = None THEN <<>> ELSE transcription} :
                IF tr = <<>> \/ tr = YoutubeCached
                THEN /\ ch_events' = ErrorStream("Transcription nao disponivel")
                     /\ ch_pc' = "closed"
                     /\ ch_items' = <<>>
                ELSE /\ ch_events' = <<>>
                     /\ ch_pc' = "start"
                     /\ ch_items' = items
    /\ UNCHANGED <<storeVars, sweepVars, streamVars, flight, fetch, djangoVars>>

\* generate(): the initial acknowledgment
ChatStart ==
    /\ ch_pc = "start"
    /\ ch_events' = Append(ch_events, Event("start", ""))
    /\ ch_pc' = "loop"
    /\ UNCHANGED <<ch_client, ch_items, ch_failed>>
    /\ UNCHANGED <<storeVars, sweepVars, streamVars, flight, fetch, djangoVars>>

\* generate(): one turn of the loop over video_analyzer.chat_stream. The
\* analyzer catches what its stream raises and yields it as one more text
\* fragment "Error: ...", after which its generator is exhausted.
ChatChunk ==
    /\ ch_pc = "loop"
    /\ ch_items # <<>>
    /\ LET item == Head(ch_items)
       IN  /\ ch_events' =
                IF item = "text" THEN Append(ch_events, Event("chunk", "text"))
                ELSE IF item = "unconfigured"
                THEN Append(ch_events, Event("chunk", "API not configured"))
                ELSE IF item = "raise"
                THEN Append(ch_events, Event("chunk", "Error: ..."))
                ELSE ch_events
           /\ ch_items' = IF item \in {"raise", "unconfigured"} THEN <<>>
                          ELSE Tail(ch_items)
           /\ ch_failed' = (ch_failed \/ item = "raise")
    /\ UNCHANGED <<ch_pc, ch_client>>
    /\ UNCHANGED <<storeVars, sweepVars, streamVars, flight, fetch, djangoVars>>

\* generate(): the stream of the analyzer is exhausted
ChatEnd ==
    /\ ch_pc = "loop"
    /\ ch_items = <<>>
    /\ ch_events' = Append(ch_events, Event("end", ""))
    /\ ch_pc' = "closed"
    /\ UNCHANGED <<ch_client, ch_items, ch_failed>>
    /\ UNCHANGED <<storeVars, sweepVars, streamVars, flight, fetch, djangoVars>>

-----------------------------------------------------------------------------
(* The background sweep, cleanup_old_files, one file-system call per step  *)

SweepAge == 1800

SweepInterval == 300

\* current_time = time.time() and the directory listing of glob('*'), when
\* the sleep is over
SweepBegin ==
    /\ sw_pc = "sleep"
    /\ now >= sw_wake
    /\ sw_time' = now
    /\ sw_todo' = DOMAIN files
    /\ sw_pc' = "scan"
    /\ UNCHANGED <<sw_cur, sw_wake, sw_log>>
    /\ UNCHANGED <<storeVars, streamVars, chatVars, flight, fetch, djangoVars>>

\* the next path of the listing, in directory order: file_path.is_file()
SweepIsFile ==
    /\ sw_pc = "scan"
    /\ \E f \in sw_todo :
        /\ sw_todo' = sw_todo \ {f}
        /\ IF f \in DOMAIN files
           THEN sw_cur' = f /\ sw_pc' = "stat"
           ELSE sw_cur' = None /\ sw_pc' = "scan"
    /\ sw_log' = [name |-> None, age |-> 0]
    /\ UNCHANGED <<sw_time, sw_wake>>
    /\ UNCHANGED <<storeVars, streamVars, chatVars, flight, fetch, djangoVars>>

\* time.sleep(300); the locals of the pass are dead until the next one
SweepSleep ==
    /\ sw_pc' = "sleep"
    /\ sw_time' = 0
    /\ sw_wake' = now + SweepInterval
    /\ sw_todo' = {}
    /\ sw_cur' = None
    /\ sw_log' = [name |-> None, age |-> 0]

SweepStat_NoMtime ==
    /\ sw_pc = "stat"
    /\ IF sw_cur \in DOMAIN files
       THEN /\ sw_log' = [name |-> sw_cur, age |-> now - files[sw_cur].mtime]
            /\ sw_pc' = IF sw_time > SweepAge
                        THEN "unlink" ELSE "scan"
            /\ UNCHANGED <<sw_time, sw_todo, sw_cur, sw_wake>>
       ELSE SweepSleep
    /\ UNCHANGED <<storeVars, streamVars, chatVars, flight, fetch, djangoVars>>

\* file_age = current_time - file_path.stat().st_mtime; if file_age > 1800.
\* stat() of a path that is gone raises: the handler around the whole pass
\* catches it, and the loop goes to sleep.
SweepStat ==
    /\ sw_pc = "stat"
    /\ IF sw_cur \in DOMAIN files
       THEN /\ sw_log' = [name |-> sw_cur, age |-> now - files[sw_cur].mtime]
            /\ sw_pc' = IF sw_time - files[sw_cur].mtime > SweepAge
                        THEN "unlink" ELSE "scan"
            /\ UNCHANGED <<sw_time, sw_todo, sw_cur, sw_wake>>
       ELSE SweepSleep
    /\ UNCHANGED <<storeVars, streamVars, chatVars, flight, fetch, djangoVars>>

\* file_path.unlink(); a failure (the file is gone) is swallowed
SweepUnlink ==
    /\ sw_pc = "unlink"
    /\ files' = DictRemove(files, sw_cur)
    /\ sw_pc' = "scan"
    /\ UNCHANGED <<sw_time, sw_todo, sw_cur, sw_wake, sw_log>>
    /\ UNCHANGED <<now, session_files, cookie, tokens, resp, acquired, backend_calls>>
    /\ UNCHANGED <<streamVars, chatVars, flight, fetch, djangoVars>>

\* the listing is exhausted
SweepEnd ==
    /\ sw_pc = "scan"
    /\ sw_todo = {}
    /\ SweepSleep
    /\ UNCHANGED <<storeVars, streamVars, chatVars, flight, fetch, djangoVars>>

\* The instants the clock is observed at: a file written at 0 or 1 is, at
\* SweepAge + 1, just older than the threshold or exactly as old.
TimePoints == {0, 1, SweepAge + 1}

\* Time passes: the clock reads t.
Tick(t) ==
    /\ t > now
    /\ now' = t
    /\ UNCHANGED <<files, session_files, cookie, tokens, resp, acquired, backend_calls>>
    /\ UNCHANGED <<sweepVars, streamVars, chatVars, flight, fetch, djangoVars>>

-----------------------------------------------------------------------------
(* The streaming specification: browser A has uploaded one file at time 0, *)
(* and one GET /stream request is served.                                  *)

StreamName == FileName(<<"a">>, 0, ExtMp4)

MissingName == FileName(<<"b">>, 0, ExtMp4)

StreamSizes == {0, 1, ChunkSize, ChunkSize + 1, MaxChunks * ChunkSize + 1}

RangePoints == {0, 1, ChunkSize - 1, ChunkSize, MaxChunks * ChunkSize}

\* "bytes=<s>-<e>"
RangeHeader(s, e) == BytesEq \o Digits(s) \o <<"-">> \o Digits(e)

StreamHeaders ==
    {None, <<>>}
    \cup {RangeHeader(s, e) : s \in RangePoints, e \in RangePoints}
    \cup {BytesEq \o Digits(s) \o <<"-">> : s \in RangePoints}
    \cup {BytesEq \o <<"-">> \o Digits(e) : e \in {1, ChunkSize}}
    \cup {<<"i", "t", "e", "m", "s", "=", "0", "-", "1">>}
    \cup {<<"x">> \o RangeHeader(1, ChunkSize)}

InitStream ==
    /\ now = 0
    /\ \E size \in StreamSizes : files = (StreamName :> [size |-> size, mtime |-> 0])
    /\ session_files = (Token(1) :> <<StreamName>>)
    /\ cookie = [c \in Clients |-> IF c = "A" THEN [EmptyCookie EXCEPT !.has = {"session_id"}, !.session_id = Token(1)]
                                   ELSE EmptyCookie]
    /\ tokens = 1
    /\ resp = [op |-> "upload", client |-> "A", status |-> 200,
               req |-> <<"a", ".", "m", "p", "4">>, error |-> "",
               filename |-> StreamName,
               steps |-> <<"save", "session", "record", "probe">>]
    /\ acquired = [c \in Clients |-> IF c = "A" THEN {StreamName} ELSE {}]
    /\ backend_calls = 0
    /\ SweepIdle
    /\ StreamIdle
    /\ ChatIdle
    /\ FlightIdle
    /\ FetchIdle
    /\ DjangoIdle

NextStream ==
    \/ \E fn \in {StreamName, MissingName}, h \in StreamHeaders : StreamRequest(fn, h)
    \/ StreamExists
    \/ StreamRespond
    \/ GenOpen
    \/ GenRead

SpecStream == InitStream /\ [][NextStream]_vars

\* The request names a stored file and carries exactly "bytes=s-e" with
\* 0 <= s <= e <= fileSize - 1.
ValidRange(s, e) ==
    /\ st_filename \in DOMAIN files
    /\ st_range = RangeHeader(s, e)
    /\ s <= e
    /\ e <= files[st_filename].size - 1

\* C1: for every stored file and every request bytes=s-e with
\* 0 <= s <= e <= fileSize-1, the stream does not fail and the completed body
\* is exactly the e-s+1 bytes of the file at offsets s..e, in order.
C1_RangeBytes ==
    \A s \in RangePoints, e \in RangePoints :
        ValidRange(s, e) =>
            /\ st_pc # "error"
            /\ st_pc = "done" =>
                /\ st_status = 206
                /\ Len(Flatten(body)) = e - s + 1
                /\ Flatten(body) = SubSeq(FileBytes(st_filename, files[st_filename].size),
                                          s + 1, e + 1)

\* A completed stream of a valid range that starts inside the file and
\* took more than one chunk.
C1_Witness ==
    /\ st_pc = "done"
    /\ \E s \in RangePoints, e \in RangePoints : ValidRange(s, e) /\ s > 0
    /\ Len(body) >= 2

\* C2: for an existing file, a request without a Range header is answered
\* with status 206, Content-Length fileSize and all fileSize bytes of the file.
C2_NoRangeWholeFile ==
    (st_range = None /\ st_filename \in DOMAIN files) =>
        /\ st_pc # "error"
        /\ st_pc = "done" =>
            /\ st_status = 206
            /\ content_length = files[st_filename].size
            /\ Flatten(body) = FileBytes(st_filename, files[st_filename].size)

\* A completed stream without a Range header of a file of several chunks.
C2_Witness ==
    /\ st_pc = "done"
    /\ st_range = None
    /\ st_filename \in DOMAIN files
    /\ Len(body) > MaxChunks

-----------------------------------------------------------------------------
(* The application: two browsers, the file store, the registry, the sweep  *)

MaxNow == 1

ValidUpload == <<"a", ".", "m", "p", "4">>

DownloadCase(url, tr, probe, primary, stderr, fallback) ==
    [url |-> url, tr |-> tr, probe |-> probe, title |-> <<"a">>, primary |-> primary,
     stderr |-> stderr, fallback |-> fallback]

\* yt-dlp writes the file where it is asked to, or with another extension.
DownloadCases ==
    {DownloadCase(TRUE, "none", "ok", "file", <<>>, "raise"),
     DownloadCase(TRUE, "blocked", "nonzero", "altered", <<>>, "raise")}

Init ==
    /\ now = 0
    /\ files = EmptyDict
    /\ session_files = EmptyDict
    /\ cookie = [c \in Clients |-> EmptyCookie]
    /\ tokens = 0
    /\ resp = [op |-> "none"]
    /\ acquired = [c \in Clients |-> {}]
    /\ backend_calls = 0
    /\ SweepIdle
    /\ StreamIdle
    /\ ChatIdle
    /\ FlightIdle
    /\ FetchIdle
    /\ DjangoIdle

Next ==
    \/ \E t \in 0..MaxNow : Tick(t)
    \/ \E c \in Clients : Upload(c, TRUE, ValidUpload, 1)
    \/ \E c \in Clients, d \in DownloadCases : Download(c, d)
    \/ \E c \in Clients : Cleanup(c)
    \/ \E c \in Clients : ListDownloads(c)

Spec == Init /\ [][Next]_vars

\* C6: no file that the registry lists as owned by one session appears in
\* the response of GET /list-downloads of another session.
C6_SessionIsolation ==
    resp.op = "list" =>
        \A other \in Clients \ {resp.client} :
            Elems(resp.files) \cap Elems(OwnedList(other)) = {}

\* C7: POST /cleanup deletes exactly the caller's files: every file the
\* session acquired by download or upload since its last cleanup is gone
\* afterwards, and every file the request deletes is one the registry lists
\* as owned by the caller.
C7_CleanupExact ==
    [][\A c \in Clients :
          Cleanup(c) => /\ acquired[c] \cap DOMAIN files' = {}
                        /\ (DOMAIN files) \ (DOMAIN files') \subseteq Elems(OwnedList(c))]_vars

\* C8: a session that has acquired no file since its last POST /cleanup is
\* answered an empty list by GET /list-downloads.
C8_EmptyAfterCleanup ==
    (resp.op = "list" /\ acquired[resp.client] = {}) => resp.files = <<>>

\* The session exists, so it has acquired files and cleaned them up, and the
\* store still holds a file of the other session.
C8_Witness ==
    /\ resp.op = "list"
    /\ acquired[resp.client] = {}
    /\ "session_id" \in cookie[resp.client].has
    /\ resp.files = <<>>
    /\ files # EmptyDict

-----------------------------------------------------------------------------
(* POST /upload with every kind of input, within one second               *)

UploadNames ==
    {ValidUpload,
     <<"d", "/", "b", "!", ".", "M", "P", "4">>,
     <<"a", ".", "t", "x", "t">>,
     <<"a">>,
     <<>>}

UploadSizes == {UploadLimit, UploadLimit + 1}

\* The requests of one instant: the names of the two accepted uploads differ.
NextUpload ==
    \/ \E c \in Clients, raw \in UploadNames, size \in UploadSizes :
          Upload(c, TRUE, raw, size)
    \/ \E c \in Clients : Upload(c, FALSE, <<>>, 0)
    \/ \E c \in Clients : Cleanup(c)

SpecUpload == Init /\ [][NextUpload]_vars

\* The persisted name of an upload request.
UploadTarget(raw) == FileName(Sanitize(Stem(raw)), now, Lower(Suffix(raw)))

\* The extensions the specification lists.
ListedExtensions ==
    {<<".", "m", "p", "4">>, <<".", "a", "v", "i">>, <<".", "m", "o", "v">>,
     <<".", "m", "k", "v">>, <<".", "w", "e", "b", "m">>}

\* C9: an upload with a listed extension whose persisted size exceeds 500 MB
\* is answered 400 with the size error, its file is not in the store
\* afterwards, and the registry and the session are unchanged.
C9_OversizeRejected ==
    [][\A c \in Clients, raw \in UploadNames \ {<<>>}, size \in UploadSizes :
          (/\ Lower(Suffix(raw)) \in ListedExtensions
           /\ size > 500 * 1024 * 1024
           /\ Upload(c, TRUE, raw, size))
          => /\ resp'.status = 400
             /\ resp'.error = "File size exceeds 500MB limit"
             /\ UploadTarget(raw) \notin DOMAIN files'
             /\ session_files' = session_files
             /\ cookie' = cookie]_vars

\* An oversize upload of a session that owns a file has been rejected.
C9_Witness ==
    /\ resp.op = "upload"
    /\ resp.steps = <<"save", "unlink">>
    /\ OwnedList(resp.client) # <<>>

\* C10: an upload whose extension, lower-cased, is not one of .mp4, .avi,
\* .mov, .mkv, .webm is answered 400 before anything is saved or probed:
\* the store, the registry and the session are unchanged.
C10_BadExtensionRejected ==
    [][\A c \in Clients, raw \in UploadNames \ {<<>>}, size \in UploadSizes :
          (/\ Lower(Suffix(raw)) \notin ListedExtensions
           /\ Upload(c, TRUE, raw, size))
          => /\ resp'.status = 400
             /\ resp'.steps = <<>>
             /\ files' = files
             /\ session_files' = session_files
             /\ cookie' = cookie
             /\ tokens' = tokens]_vars

\* A .txt upload has been rejected while the store holds a file.
C10_Witness ==
    /\ resp.op = "upload"
    /\ resp.error = "Invalid file type"
    /\ Suffix(resp.req) = <<".", "t", "x", "t">>
    /\ files # EmptyDict

-----------------------------------------------------------------------------
(* The sweep thread beside the requests that create and delete files       *)

NextSweep ==
    \/ \E t \in TimePoints : Tick(t)
    \/ \E c \in Clients : Upload(c, TRUE, ValidUpload, 1)
    \/ \E c \in Clients : Cleanup(c)
    \/ SweepBegin
    \/ SweepIsFile
    \/ SweepStat
    \/ SweepUnlink
    \/ SweepEnd

SpecSweep == Init /\ [][NextSweep]_vars

\* C3: the sweep decides to delete a file only when the file's age at the
\* moment of the examination is at least 1800 seconds.
C3_SweepKeepsYoung == sw_pc = "unlink" => sw_log.age >= SweepAge

\* The sweep has examined a file younger than 1800 seconds and kept it.
C3_Witness ==
    /\ sw_pc = "scan"
    /\ sw_log.name \in DOMAIN files
    /\ sw_log.age > 0
    /\ sw_log.age < SweepAge

\* C4: when an iteration of the sweep loop reaches its sleep, no file that
\* was older than 1800 seconds when the iteration began is left in the store.
C4_OldFilesRemoved ==
    [][(sw_pc # "sleep" /\ sw_pc' = "sleep")
          => \A f \in DOMAIN files' : sw_time - files'[f].mtime <= SweepAge]_vars

-----------------------------------------------------------------------------
(* POST /analyze of a downloaded file that the sweep removes in time       *)

AnalyzeName == FileName(<<"a">>, 0, ExtMp4)

AnalyzeNames == {AnalyzeName, MissingName, <<>>}

AnalyzeModes == {None, SummaryMode, TranscriptMode}

AnalyzeTimes == {0, SweepAge + 1}

\* Browser A has downloaded a captioned video at time 0.
InitAnalyze ==
    /\ now = 0
    /\ files = (AnalyzeName :> [size |-> 1, mtime |-> 0])
    /\ session_files = (Token(1) :> <<AnalyzeName>>)
    /\ cookie = [c \in Clients |->
                   IF c = "A"
                   THEN CacheTranscript([EmptyCookie EXCEPT !.has = {"session_id"},
                                                            !.session_id = Token(1)],
                                        AnalyzeName, TranscriptText)
                   ELSE EmptyCookie]
    /\ tokens = 1
    /\ resp = [op |-> "download", client |-> "A", status |-> 200, error |-> None,
               filename |-> AnalyzeName, help_link |-> FALSE,
               has_youtube_transcript |-> TRUE, recorded |-> TRUE,
               steps |-> <<"transcript", "probe", "primary">>,
               req |-> DownloadCase(TRUE, "text", "ok", "file", <<>>, "raise")]
    /\ acquired = [c \in Clients |-> IF c = "A" THEN {AnalyzeName} ELSE {}]
    /\ backend_calls = 0
    /\ SweepIdle
    /\ StreamIdle
    /\ ChatIdle
    /\ FlightIdle
    /\ FetchIdle
    /\ DjangoIdle

NextAnalyze ==
    \/ \E t \in AnalyzeTimes : Tick(t)
    \/ \E c \in Clients, f \in AnalyzeNames, m \in AnalyzeModes,
          o \in {"success", "failed"} : Analyze(c, f, m, o)
    \/ SweepBegin
    \/ SweepIsFile
    \/ SweepStat
    \/ SweepUnlink
    \/ SweepEnd

SpecAnalyze == InitAnalyze /\ [][NextAnalyze]_vars

\* C5: when a session calls analyze again with a (filename, mode) whose
\* result an earlier call of that session stored, the call answers 200 with
\* cached = true and the stored payload unchanged, and the AI backend is not
\* invoked.
C5_CachedReplay ==
    [][\A c \in Clients, f \in AnalyzeNames, m \in AnalyzeModes, o \in {"success", "failed"} :
          (/\ Analyze(c, f, m, o)
           /\ "video_analysis" \in cookie[c].has
           /\ CacheKey(f, ModeOf(m)) \in DOMAIN cookie[c].video_analysis)
          => /\ resp'.status = 200
             /\ resp'.cached
             /\ resp'.result = cookie[c].video_analysis[CacheKey(f, ModeOf(m))]
             /\ backend_calls' = backend_calls]_vars

\* A second call that is answered from the cache.
C5_Witness ==
    /\ resp.op = "analyze"
    /\ resp.cached
    /\ resp.result.status = "success"

\* C15: on a cache miss of analyze, when the session holds a transcript for
\* the filename the full video analysis is not invoked: mode "transcript"
\* returns the held transcript verbatim without any call of the AI backend,
\* every other mode uses the transcript-based analysis; the full video
\* analysis is used exactly when no transcript is held.
C15_TranscriptPreferred ==
    [][\A c \in Clients, f \in AnalyzeNames, m \in AnalyzeModes, o \in {"success", "failed"} :
          (/\ f \in DOMAIN files
           /\ CacheKey(f, ModeOf(m)) \notin DOMAIN cookie[c].video_analysis
           /\ Analyze(c, f, m, o))
          => IF /\ "video_transcriptions" \in cookie[c].has
                /\ f \in DOMAIN cookie[c].video_transcriptions
             THEN IF ModeOf(m) = <<"t", "r", "a", "n", "s", "c", "r", "i", "p", "t">>
                  THEN /\ resp'.backend = "none"
                       /\ backend_calls' = backend_calls
                       /\ resp'.result.transcript = cookie[c].video_transcriptions[f]
                  ELSE /\ resp'.backend = "analyze_with_transcript"
                       /\ backend_calls' = backend_calls + 1
             ELSE resp'.backend = "analyze_video"]_vars

\* A transcript request answered with the held transcript, and no backend call.
C15_Witness ==
    /\ resp.op = "analyze"
    /\ resp.status = 200
    /\ ~resp.cached
    /\ resp.source = "youtube_transcript"
    /\ resp.backend = "none"
    /\ resp.result.transcript = TranscriptText
    /\ backend_calls = 0

\* C16: every result analyze computes, a failed one included, is in the
\* session's cache under (filename, mode) when the call returns, and a later
\* call with the (filename, mode) of a stored failed result replays it with
\* cached = true and without a call of the AI backend.
C16_FailureCachedAndReplayed ==
    [][\A c \in Clients, f \in AnalyzeNames, m \in AnalyzeModes, o \in {"success", "failed"} :
          Analyze(c, f, m, o)
          => /\ (resp'.status = 200 /\ ~resp'.cached)
                => /\ CacheKey(f, ModeOf(m)) \in DOMAIN cookie'[c].video_analysis
                   /\ cookie'[c].video_analysis[CacheKey(f, ModeOf(m))] = resp'.result
             /\ (/\ CacheKey(f, ModeOf(m)) \in DOMAIN cookie[c].video_analysis
                 /\ cookie[c].video_analysis[CacheKey(f, ModeOf(m))].status = "failed")
                => /\ resp'.status = 200
                   /\ resp'.cached
                   /\ resp'.result = cookie[c].video_analysis[CacheKey(f, ModeOf(m))]
                   /\ backend_calls' = backend_calls]_vars

\* A retry that is answered with the stored failed result.
C16_Witness ==
    /\ resp.op = "analyze"
    /\ resp.cached
    /\ resp.result.status = "failed"

-----------------------------------------------------------------------------
\* Overlapping analyze requests of the sessions, on the file A downloaded.

OverlapModes == {SummaryMode, TranscriptMode}

NextOverlap ==
    \/ \E r \in Flights, c \in Clients, m \in OverlapModes :
          AnalyzeSend(r, c, AnalyzeName, m, "success")
    \/ \E r \in Flights : AnalyzeHandle(r)
    \/ \E r \in Flights : AnalyzeReceive(r)

SpecOverlap == InitAnalyze /\ [][NextOverlap]_vars

\* C18: no result is lost from a session's analysis cache: when the browser
\* has received the response of an analyze request, the session's cache holds
\* the result of that request and every result it held before.
C18_NoLostAnalysis ==
    [][\A r \in Flights :
          (AnalyzeReceive(r) /\ flight[r].resp.status = 200)
          => /\ CacheKey(flight[r].filename, ModeOf(flight[r].mode))
                  \in DOMAIN cookie'[flight[r].client].video_analysis
             /\ DOMAIN cookie[flight[r].client].video_analysis
                  \subseteq DOMAIN cookie'[flight[r].client].video_analysis]_vars

\* A session whose cache holds the results of both modes.
C18_Witness ==
    /\ resp.op = "analyze"
    /\ resp.status = 200
    /\ \A m \in OverlapModes :
          CacheKey(AnalyzeName, m) \in DOMAIN cookie[resp.client].video_analysis
    /\ \A r \in Flights : flight[r].pc = "idle"

-----------------------------------------------------------------------------
\* Overlapping uploads of the sessions: each of the two requests in flight
\* has its own file, so that the two acquisitions give distinct filenames.

OverlapUpload == [r1 |-> ValidUpload, r2 |-> <<"b", ".", "m", "p", "4">>]

NextAcquire ==
    \/ \E r \in Flights, c \in Clients : UploadSend(r, c, OverlapUpload[r])
    \/ \E r \in Flights : UploadSession(r)
    \/ \E r \in Flights : UploadCheck(r)
    \/ \E r \in Flights : UploadCreate(r)
    \/ \E r \in Flights : UploadAppend(r)
    \/ \E r \in Flights : UploadReceive(r)

SpecAcquire == Init /\ [][NextAcquire]_vars

\* C19: no filename is lost from a session's ownership list: when no request
\* is in flight, the ownership list of every session contains every filename
\* a successful acquisition returned to it.
C19_NoLostOwnership ==
    (\A r \in Flights : flight[r].pc = "idle")
    => \A c \in Clients : acquired[c] \subseteq Elems(OwnedList(c))

\* A session that acquired two files and owns both.
C19_Witness ==
    /\ \A r \in Flights : flight[r].pc = "idle"
    /\ \E c \in Clients :
          /\ Cardinality(acquired[c]) = 2
          /\ acquired[c] \subseteq Elems(OwnedList(c))

-----------------------------------------------------------------------------
\* A stream request served while the owner's cleanup and the sweep delete.

RaceHeaders == {None, RangeHeader(0, ChunkSize), BytesEq \o Digits(1) \o <<"-">>}

NextStreamRace ==
    \/ \E h \in RaceHeaders : StreamRequest(StreamName, h)
    \/ StreamExists
    \/ StreamRespond
    \/ GenOpen
    \/ GenRead
    \/ \E c \in Clients : Cleanup(c)
    \/ Tick(SweepAge + 1)
    \/ SweepBegin
    \/ SweepIsFile
    \/ SweepStat
    \/ SweepUnlink
    \/ SweepEnd

SpecStreamRace == InitStream /\ [][NextStreamRace]_vars

\* C20: whenever the sweep or a cleanup deletes the file of a stream request
\* in flight, no step of the request raises an unhandled error.
C20_DeletionTolerated == st_pc # "error"

\* A request whose file was deleted while its body was read, and whose body
\* ended without an error.
C20_Witness ==
    /\ st_pc = "done"
    /\ st_status = 206
    /\ st_filename \notin DOMAIN files
    /\ body # <<>>

-----------------------------------------------------------------------------
\* Chat streams of a session that holds a caption transcript (A) and of one
\* that holds none (B).

ChatQuestions == {None, <<"q">>}

ChatTranscriptions == {None, YoutubeCached, <<"h", "i">>}

\* Bound of the model: the fragments one backend stream delivers.
MaxItems == 3

\* A stream of fragments, with or without text, that ends or raises; or an
\* analyzer without a stream model.
ChatBackends ==
    LET delivered == UNION {[1..n -> {"text", "empty"}] : n \in 0..MaxItems}
    IN  delivered \cup {Append(b, "raise") : b \in delivered}
                  \cup {<<"unconfigured">>}

NextChat ==
    \/ \E c \in Clients, q \in ChatQuestions, t \in ChatTranscriptions,
          items \in ChatBackends : ChatRequest(c, q, t, items)
    \/ ChatStart
    \/ ChatChunk
    \/ ChatEnd

SpecChat == InitAnalyze /\ [][NextChat]_vars

\* C17: every response of the chat stream ends with an event of type end,
\* and when an error occurred during the streaming the response carries an
\* event of type error.
C17_StreamEndsWithEnd ==
    ch_pc = "closed"
    => /\ ch_events # <<>>
       /\ ch_events[Len(ch_events)].type = "end"
       /\ ch_failed => \E i \in 1..Len(ch_events) : ch_events[i].type = "error"

\* A stream of two fragments, closed by its end event.
C17_Witness ==
    /\ ch_pc = "closed"
    /\ Len(ch_events) = 4
    /\ ch_events[1].type = "start"
    /\ ch_events[2].type = "chunk"
    /\ ch_events[4].type = "end"
    /\ ~ch_failed

-----------------------------------------------------------------------------
\* Downloads: every outcome of the transcript fetch, the probe, the primary
\* attempt and the fallback.

AllDownloadCases ==
    {DownloadCase(FALSE, "skipped", "ok", "file", <<>>, "raise"),
     DownloadCase(TRUE, "text", "ok", "file", <<>>, "raise"),
     DownloadCase(TRUE, "text", "nonzero", "altered", <<>>, "raise"),
     DownloadCase(TRUE, "skipped", "ok", "nofile", <<>>, "raise"),
     DownloadCase(TRUE, "none", "timeout", "fail", StderrOther, "ok"),
     DownloadCase(TRUE, "blocked", "ok", "timeout", <<>>, "ok"),
     DownloadCase(TRUE, "none", "ok", "fail", StderrBot, "raise"),
     DownloadCase(TRUE, "none", "badjson", "fail", StderrBot, "nostream"),
     DownloadCase(TRUE, "none", "ok", "fail", StderrLateBot, "raise"),
     DownloadCase(TRUE, "none", "ok", "fail", StderrExtract, "raise"),
     DownloadCase(TRUE, "none", "ok", "fail", StderrExtract, "nostream"),
     DownloadCase(TRUE, "none", "ok", "fail", StderrOther, "raise"),
     DownloadCase(TRUE, "none", "ok", "fail", <<>>, "raise"),
     DownloadCase(TRUE, "text", "ok", "fail", StderrOther, "ok"),
     DownloadCase(TRUE, "none", "ok", "failaltered", StderrOther, "raise"),
     DownloadCase(TRUE, "blocked", "ok", "file", <<>>, "raise")}

\* Bound of the model: the files one session acquires in this specification.
MaxDownloaded == 1

NextDownload ==
    \E c \in Clients, d \in AllDownloadCases :
        /\ Cardinality(acquired[c]) < MaxDownloaded
        /\ Download(c, d)

SpecDownload == Init /\ [][NextDownload]_vars

\* Both attempts of the request failed: the primary attempt ended with a
\* non-zero exit status and the fallback produced no file.
BothAttemptsFail(d) ==
    /\ d.url
    /\ d.probe # "timeout"
    /\ d.primary \in {"fail", "failaltered"}
    /\ d.fallback # "ok"

\* The text contains "Sign in to confirm" or, in any letter case, "bot".
MatchesBotPattern(text) ==
    \/ Contains(text, <<"S", "i", "g", "n", " ", "i", "n", " ", "t", "o", " ",
                        "c", "o", "n", "f", "i", "r", "m">>)
    \/ Contains(Lower(text), <<"b", "o", "t">>)

\* C11: when the primary attempt exits non-zero with an error text that
\* matches the bot pattern and the fallback fails too, the response is 429
\* and carries the help link.
C11_BotErrorIs429 ==
    (/\ resp.op = "download"
     /\ BothAttemptsFail(resp.req)
     /\ MatchesBotPattern(resp.req.stderr))
    => /\ resp.status = 429
       /\ resp.help_link

\* A bot-check error named at the start of the error text is answered 429.
C11_Witness ==
    /\ resp.op = "download"
    /\ resp.status = 429
    /\ resp.help_link
    /\ resp.error = StderrBot

\* C12: when both attempts fail and the primary error text does not match
\* the bot pattern, the response is 500 with the first 500 characters of the
\* upstream error text, never 429.
C12_OtherErrorIs500 ==
    (/\ resp.op = "download"
     /\ BothAttemptsFail(resp.req)
     /\ ~MatchesBotPattern(resp.req.stderr))
    => /\ resp.status = 500
       /\ resp.req.stderr # <<>>
          => resp.error = SubSeq(resp.req.stderr, 1, Min(Len(resp.req.stderr), 500))

\* An error text without the pattern and without "Failed to extract" is
\* answered 500 with that text.
C12_Witness ==
    /\ resp.op = "download"
    /\ resp.status = 500
    /\ resp.error = StderrOther

\* C13: the fallback is attempted exactly when the primary attempt completed
\* with a non-zero exit status; a timeout of the probe or of the primary
\* attempt starts no fallback and is answered 500 with the timeout error.
C13_FallbackOnlyAfterNonZeroExit ==
    (resp.op = "download" /\ resp.req.url)
    => /\ ("fallback" \in Elems(resp.steps))
          <=> (resp.req.probe # "timeout"
               /\ resp.req.primary \in {"fail", "failaltered"})
       /\ (resp.req.probe = "timeout" \/ resp.req.primary = "timeout")
          => /\ "fallback" \notin Elems(resp.steps)
             /\ resp.status = 500
             /\ resp.error = TimeoutText

\* A primary attempt that timed out, answered as a timeout without fallback.
C13_Witness ==
    /\ resp.op = "download"
    /\ resp.status = 500
    /\ resp.error = TimeoutText
    /\ resp.steps = <<"transcript", "probe", "primary">>

\* C14: after every successful download the returned filename is in the
\* caller's ownership list and the transcript, when one was obtained, is
\* cached under that filename.
C14_SuccessIsRecorded ==
    (resp.op = "download" /\ resp.status = 200)
    => /\ resp.filename \in Elems(OwnedList(resp.client))
       /\ resp.has_youtube_transcript
          => /\ resp.filename \in DOMAIN cookie[resp.client].video_transcriptions
             /\ cookie[resp.client].video_transcriptions[resp.filename] = TranscriptText

\* A download that found its file where it asked for it is recorded.
C14_Witness ==
    /\ resp.op = "download"
    /\ resp.status = 200
    /\ resp.recorded
    /\ resp.has_youtube_transcript
    /\ resp.filename \in Elems(OwnedList(resp.client))

-----------------------------------------------------------------------------
\* Filenames and ownership lists of the acquisitions of two sessions.

\* C21: no two acquisitions construct the same target filename: the file a
\* successful acquisition returns did not exist in the store before it (no
\* acquisition writes over the file of another one).
C21_DisjointFilenames ==
    [][\A c \in Clients :
          (/\ \/ Upload(c, TRUE, ValidUpload, 1)
              \/ \E d \in DownloadCases : Download(c, d)
           /\ resp'.status = 200)
          => resp'.filename \notin DOMAIN files]_vars

\* C22: a filename appears at most once in every ownership list of the
\* session registry.
C22_OwnedAtMostOnce ==
    \A sid \in DOMAIN session_files :
        \A i, j \in 1..Len(session_files[sid]) :
            i # j => session_files[sid][i] # session_files[sid][j]

-----------------------------------------------------------------------------
\* C29: an error during a pass of the sweep does not abort the pass: whenever
\* the loop goes to its sleep, every file of the pass's listing has been
\* examined.
C29_PassExaminesAll ==
    [][(sw_pc # "sleep" /\ sw_pc' = "sleep") => sw_todo = {}]_vars

-----------------------------------------------------------------------------
\* The search for a file under the constructed name's prefix.

\* The response answers a request that ran its attempts, after which the
\* expected target file does not exist and a file under the constructed
\* name's prefix does.
OnlyPrefixMatch ==
    /\ resp.op = "download"
    /\ resp.req.url
    /\ resp.req.probe # "timeout"
    /\ resp.req.primary # "timeout"
    /\ LET title  == IF resp.req.probe = "ok" THEN resp.req.title
                     ELSE <<"v", "i", "d", "e", "o">>
           prefix == Sanitize(title) \o <<"_">> \o Digits(now)
       IN  /\ prefix \o <<".", "m", "p", "4">> \notin DOMAIN files
           /\ \E f \in DOMAIN files : MatchesAt(f, 1, prefix)

\* The last attempt of the request ended with exit status 0.
LastExitZero ==
    \/ resp.req.primary \in {"file", "altered", "nofile"}
    \/ resp.req.fallback = "ok"

\* C30 as stated: whenever neither attempt has produced the expected target
\* file and a file under the constructed name's prefix exists, the request
\* succeeds, whatever the exit status of the attempts.
C30_PrefixSearchAlways == OnlyPrefixMatch => resp.status = 200

\* C30 amended: the prefix search is made when the last attempt ended with
\* exit status 0; then a file found under the prefix makes the request
\* succeed with that file's name. After a non-zero exit status no search is
\* made and the request fails.
C30_PrefixSearchAfterExitZero ==
    OnlyPrefixMatch
    => IF LastExitZero
       THEN /\ resp.status = 200
            /\ resp.filename \in DOMAIN files
            /\ resp.filename # None
       ELSE resp.status \in {429, 500}

\* A request that succeeded with a file found under the prefix.
C30_Witness ==
    /\ OnlyPrefixMatch
    /\ LastExitZero
    /\ resp.status = 200
    /\ resp.filename = <<"v", "i", "d", "e", "o", "_", "0", ".", "w", "e", "b", "m">>

-----------------------------------------------------------------------------
\* The transcript fetch and the order of the steps of one download request.

\* C26: a transcript fetch that found nothing or was blocked does not end the
\* request: the probe is run and, unless the probe times out, the primary
\* attempt; the request caches no transcript and, when it succeeds, reports
\* has_youtube_transcript false. (Every step of the specification is a
\* download request, and its response names the request it answers.)
C26_FetchFailureNotFatal ==
    [][(/\ resp'.op = "download"
        /\ resp'.req.url
        /\ resp'.req.tr \in {"none", "blocked"})
       => /\ "probe" \in Elems(resp'.steps)
          /\ resp'.req.probe # "timeout" => "primary" \in Elems(resp'.steps)
          /\ cookie'[resp'.client].video_transcriptions
                 = cookie[resp'.client].video_transcriptions
          /\ resp'.status = 200 => ~resp'.has_youtube_transcript]_vars

\* A download whose transcript fetch was blocked and which succeeded without
\* a transcript.
C26_Witness ==
    /\ resp.op = "download"
    /\ resp.req.tr = "blocked"
    /\ resp.status = 200
    /\ ~resp.has_youtube_transcript
    /\ resp.filename \notin DOMAIN cookie[resp.client].video_transcriptions

\* The position of a step in the order of the claim.
StepRank(step) ==
    CHOOSE k \in 1..4 :
        <<"transcript", "probe", "primary", "fallback">>[k] = step

\* C28: the steps of one request run in the order transcript fetch, probe,
\* primary attempt, fallback, and the session registry and the transcript
\* cache are written only by a request one of whose download attempts ended
\* with exit status 0.
C28_StepsInOrder ==
    [][/\ resp'.op = "download"
          => \A i, j \in 1..Len(resp'.steps) :
                i < j => StepRank(resp'.steps[i]) < StepRank(resp'.steps[j])
       /\ (resp'.op = "download"
           /\ (session_files' # session_files \/ cookie' # cookie))
          => /\ resp'.status = 200
             /\ "primary" \in Elems(resp'.steps)
             /\ \/ resp'.req.primary \in {"file", "altered", "nofile"}
                \/ ("fallback" \in Elems(resp'.steps) /\ resp'.req.fallback = "ok")]_vars

\* A request that ran its four steps and then recorded file and transcript.
C28_Witness ==
    /\ resp.op = "download"
    /\ resp.steps = <<"transcript", "probe", "primary", "fallback">>
    /\ resp.status = 200
    /\ resp.recorded
    /\ resp.filename \in DOMAIN cookie[resp.client].video_transcriptions

-----------------------------------------------------------------------------
(* The listing specification: uploads of files named a.mp4 and b.mp4 at    *)
(* different seconds, and GET /list-downloads.                             *)

ListUploads == {ValidUpload, <<"b", ".", "m", "p", "4">>}

NextList ==
    \/ \E t \in 0..MaxNow : Tick(t)
    \/ \E c \in Clients, raw \in ListUploads : Upload(c, TRUE, raw, 1)
    \/ \E c \in Clients : ListDownloads(c)

SpecList == Init /\ [][NextList]_vars

\* the position of the last occurrence of a name in a list
LastIndex(seq, x) == CHOOSE i \in 1..Len(seq) :
                        seq[i] = x /\ \A j \in (i + 1)..Len(seq) : seq[j] # x

\* C27 (as stated): GET /list-downloads returns the session's owned files
\* newest-acquisition-first: of two files the session owns, the one that
\* was acquired later stands before the other in the response.
C27_NewestFirst ==
    [][\A c \in Clients :
          ListDownloads(c) =>
              \A i, j \in 1..Len(resp'.files) :
                  (/\ resp'.files[i] # resp'.files[j]
                   /\ LastIndex(OwnedList(c), resp'.files[i])
                          > LastIndex(OwnedList(c), resp'.files[j]))
                  => i < j]_vars

\* C27 (amended): the response of GET /list-downloads is sorted by filename
\* in descending lexicographic order, whatever the order of acquisition.
C27_SortedByNameDescending ==
    resp.op = "list" =>
        \A i, j \in 1..Len(resp.files) :
            i < j => ~StrLess(resp.files[i], resp.files[j])

\* a listing of a file named b_0.mp4 before the later acquired a_1.mp4
C27_Witness ==
    /\ resp.op = "list"
    /\ resp.files = <<FileName(<<"b">>, 0, ExtMp4), FileName(<<"a">>, 1, ExtMp4)>>
    /\ OwnedList(resp.client) = resp.files

-----------------------------------------------------------------------------
(* POST /transcribe, POST /info and POST /chat                             *)

\* the dict get_quick_transcription returns: the transcription, or the
\* error of the backend with an empty transcription
QuickTranscription(outcome) ==
    IF outcome = "success" THEN <<"q", "u", "i", "c", "k">> ELSE <<"e", "r", "r">>

TranscribeResponse(c, filename, status, error, cached, transcription, backend) ==
    [op |-> "transcribe", client |-> c, status |-> status, req |-> filename,
     error |-> error, cached |-> cached, transcription |-> transcription,
     backend |-> backend]

transcribe_video_FileFirst(c, filename, outcome) ==
    LET ck == [cookie[c] EXCEPT !.has = @ \cup {"video_transcriptions"}]
    IN  /\ IF Missing(filename)
           THEN /\ resp' = TranscribeResponse(c, filename, 400, FilenameRequired,
                                              FALSE, None, "none")
                /\ UNCHANGED <<cookie, backend_calls>>
           ELSE IF filename \notin DOMAIN files
           THEN /\ resp' = TranscribeResponse(c, filename, 404, FileNotFound,
                                              FALSE, None, "none")
                /\ cookie' = [cookie EXCEPT ![c] = ck]
                /\ UNCHANGED backend_calls
           ELSE IF filename \in DOMAIN ck.video_transcriptions
           THEN /\ resp' = TranscribeResponse(c, filename, 200, None, TRUE,
                                              ck.video_transcriptions[filename],
                                              "none")
                /\ cookie' = [cookie EXCEPT ![c] = ck]
                /\ UNCHANGED backend_calls
           ELSE /\ backend_calls < MaxCalls
                /\ backend_calls' = backend_calls + 1
                /\ cookie' = [cookie EXCEPT ![c] =
                                CacheTranscript(ck, filename,
                                                QuickTranscription(outcome))]
                /\ resp' = TranscribeResponse(c, filename, 200, None, FALSE,
                                              QuickTranscription(outcome),
                                              "get_quick_transcription")
        /\ UNCHANGED <<now, files, session_files, tokens, acquired>>
        /\ UNCHANGED <<sweepVars, streamVars, chatVars, flight, fetch, djangoVars>>

\* The cache is looked at before the file: a cached transcription is
\* returned whether the file exists or not.
transcribe_video(c, filename, outcome) ==
    LET ck == [cookie[c] EXCEPT !.has = @ \cup {"video_transcriptions"}]
    IN  /\ IF Missing(filename)
           THEN /\ resp' = TranscribeResponse(c, filename, 400, FilenameRequired,
                                              FALSE, None, "none")
                /\ UNCHANGED <<cookie, backend_calls>>
           ELSE IF filename \in DOMAIN ck.video_transcriptions
           THEN /\ resp' = TranscribeResponse(c, filename, 200, None, TRUE,
                                              ck.video_transcriptions[filename],
                                              "none")
                /\ cookie' = [cookie EXCEPT ![c] = ck]
                /\ UNCHANGED backend_calls
           ELSE IF filename \notin DOMAIN files
           THEN /\ resp' = TranscribeResponse(c, filename, 404, FileNotFound,
                                              FALSE, None, "none")
                /\ cookie' = [cookie EXCEPT ![c] = ck]
                /\ UNCHANGED backend_calls
           ELSE /\ backend_calls < MaxCalls
                /\ backend_calls' = backend_calls + 1
                /\ cookie' = [cookie EXCEPT ![c] =
                                CacheTranscript(ck, filename,
                                                QuickTranscription(outcome))]
                /\ resp' = TranscribeResponse(c, filename, 200, None, FALSE,
                                              QuickTranscription(outcome),
                                              "get_quick_transcription")
        /\ UNCHANGED <<now, files, session_files, tokens, acquired>>
        /\ UNCHANGED <<sweepVars, streamVars, chatVars, flight, fetch, djangoVars>>

\* 'Nao foi possivel obter informacoes do video' (the accents are left out)
InfoUnavailable ==
    <<"N", "a", "o", " ", "f", "o", "i", " ", "p", "o", "s", "s", "i",
      "v", "e", "l", " ", "o", "b", "t", "e", "r", " ", "i", "n", "f",
      "o", "r", "m", "a", "c", "o", "e", "s", " ", "d", "o", " ", "v",
      "i", "d", "e", "o">>

\* str(e) of subprocess.TimeoutExpired
InfoTimedOut == <<"t", "i", "m", "e", "d", " ", "o", "u", "t">>

\* yt-dlp --dump-json --no-download: exit status 0, another exit status, or
\* no end within 30 seconds.
get_video_info(c, url, outcome) ==
    /\ resp' = IF Missing(url)
               THEN [op |-> "info", client |-> c, status |-> 400, req |-> url,
                     error |-> UrlRequired, steps |-> <<>>]
               ELSE IF outcome = "ok"
               THEN [op |-> "info", client |-> c, status |-> 200, req |-> url,
                     error |-> None, steps |-> <<"probe">>]
               ELSE IF outcome = "nonzero"
               THEN [op |-> "info", client |-> c, status |-> 400, req |-> url,
                     error |-> InfoUnavailable, steps |-> <<"probe">>]
               ELSE [op |-> "info", client |-> c, status |-> 500, req |-> url,
                     error |-> InfoTimedOut, steps |-> <<"probe">>]
    /\ UNCHANGED <<now, files, session_files, cookie, tokens, acquired, backend_calls>>
    /\ UNCHANGED <<sweepVars, streamVars, chatVars, flight, fetch, djangoVars>>

\* 'Question e obrigatorio' (the accent is left out)
QuestionRequired ==
    <<"Q", "u", "e", "s", "t", "i", "o", "n", " ", "e", " ", "o", "b",
      "r", "i", "g", "a", "t", "o", "r", "i", "o">>

\* 'Transcription nao disponivel' (the accents are left out)
TranscriptionMissing ==
    <<"T", "r", "a", "n", "s", "c", "r", "i", "p", "t", "i", "o", "n",
      " ", "n", "a", "o", " ", "d", "i", "s", "p", "o", "n", "i", "v",
      "e", "l">>

ChatResponse(c, question, transcription, status, error, backend) ==
    [op |-> "chat", client |-> c, status |-> status,
     req |-> [question |-> question, transcription |-> transcription],
     error |-> error, backend |-> backend]

\* chat_with_transcription returns a text, its own errors included
chat_about_video(c, question, transcription) ==
    /\ IF Missing(question)
       THEN /\ resp' = ChatResponse(c, question, transcription, 400,
                                    QuestionRequired, "none")
            /\ UNCHANGED backend_calls
       ELSE IF Missing(transcription)
       THEN /\ resp' = ChatResponse(c, question, transcription, 400,
                                    TranscriptionMissing, "none")
            /\ UNCHANGED backend_calls
       ELSE /\ backend_calls < MaxCalls
            /\ backend_calls' = backend_calls + 1
            /\ resp' = ChatResponse(c, question, transcription, 200, None,
                                    "chat_with_transcription")
    /\ UNCHANGED <<now, files, session_files, cookie, tokens, acquired>>
    /\ UNCHANGED <<sweepVars, streamVars, chatVars, flight, fetch, djangoVars>>

-----------------------------------------------------------------------------
(* The requests specification: session A holds a downloaded file with its  *)
(* YouTube transcript; every JSON route is called with its required field  *)
(* absent, empty or present.                                               *)

\* the values of a text field of a JSON body
FieldValues(value) == {None, <<>>, value}

RequestDownloads ==
    {DownloadCase(FALSE, "skipped", "ok", "file", <<>>, "raise"),
     DownloadCase(TRUE, "none", "ok", "file", <<>>, "raise")}

NextRequests ==
    \/ \E c \in Clients, d \in RequestDownloads : Download(c, d)
    \/ \E c \in Clients, url \in FieldValues(<<"u">>),
          o \in {"ok", "nonzero", "timeout"} : get_video_info(c, url, o)
    \/ \E c \in Clients, f \in FieldValues(AnalyzeName),
          o \in {"success", "failed"} : transcribe_video(c, f, o)
    \/ \E c \in Clients, f \in FieldValues(AnalyzeName) :
          Analyze(c, f, SummaryMode, "success")
    \/ \E c \in Clients, q \in FieldValues(<<"q">>),
          t \in FieldValues(<<"h", "i">>) : chat_about_video(c, q, t)
    \/ \E c \in Clients : Cleanup(c)

SpecRequests == InitAnalyze /\ [][NextRequests]_vars

\* C23: POST /cleanup drops the calling session's transcript cache and
\* analysis cache together with its ownership list: when it returns the
\* session holds no cached transcript and no cached analysis, and the
\* session's next transcribe or analyze request is not answered from the
\* cache.
C23_CleanupDropsCaches ==
    [][\A c \in Clients :
          /\ Cleanup(c) =>
                /\ cookie'[c].video_transcriptions = EmptyDict
                /\ cookie'[c].video_analysis = EmptyDict
          /\ (/\ resp.op = "cleanup"
              /\ resp.client = c
              /\ \/ \E o \in {"success", "failed"} :
                        transcribe_video(c, AnalyzeName, o)
                 \/ Analyze(c, AnalyzeName, SummaryMode, "success"))
             => ~resp'.cached]_vars

\* a cleanup has removed the caller's file and its ownership list
C23_Witness ==
    /\ resp.op = "cleanup"
    /\ resp.client = "A"
    /\ OwnedList("A") = <<>>
    /\ AnalyzeName \notin DOMAIN files

\* C24: a request of /download, /info, /transcribe, /analyze or /chat whose
\* required field is absent or empty is answered 400 with an error text,
\* runs no subprocess and calls no AI backend, and leaves the file store,
\* the registry and the sessions' caches as they were.
C24_MissingFieldIs400 ==
    [][\A c \in Clients :
          (/\ resp'.client = c
           /\ \/ /\ resp'.op = "download"
                 /\ Download(c, DownloadCase(FALSE, "skipped", "ok", "file",
                                             <<>>, "raise"))
              \/ /\ resp'.op = "info"
                 /\ \E url \in {None, <<>>}, o \in {"ok", "nonzero", "timeout"} :
                        get_video_info(c, url, o)
              \/ /\ resp'.op = "transcribe"
                 /\ \E f \in {None, <<>>}, o \in {"success", "failed"} :
                        transcribe_video(c, f, o)
              \/ /\ resp'.op = "analyze"
                 /\ \E f \in {None, <<>>} : Analyze(c, f, SummaryMode, "success")
              \/ /\ resp'.op = "chat"
                 /\ \E q \in FieldValues(<<"q">>), t \in FieldValues(<<"h", "i">>) :
                        /\ q \in {None, <<>>} \/ t \in {None, <<>>}
                        /\ chat_about_video(c, q, t))
          => /\ resp'.status = 400
             /\ resp'.error \notin {None, <<>>}
             /\ resp'.op \in {"download", "info"} => resp'.steps = <<>>
             /\ resp'.op \in {"transcribe", "analyze", "chat"}
                    => resp'.backend = "none"
             /\ backend_calls' = backend_calls
             /\ files' = files
             /\ session_files' = session_files
             /\ cookie' = cookie]_vars

\* a chat request without transcription is refused while the session's
\* file and cached transcript exist
C24_Witness ==
    /\ resp.op = "chat"
    /\ resp.status = 400
    /\ resp.req.question = <<"q">>
    /\ resp.req.transcription = <<>>
    /\ AnalyzeName \in DOMAIN files
    /\ AnalyzeName \in DOMAIN cookie["A"].video_transcriptions

-----------------------------------------------------------------------------
(* get_youtube_transcript: one call of the caption API per step. A call    *)
(* returns a transcript ("found"), raises the provider's IP-blocking error *)
(* ("blocked") or raises another error ("other").                          *)

FetchOutcomes == {"found", "blocked", "other"}

\* Bound of the model: the transcripts api.list returns.
MaxListed == 3

\* the attempt is added to the history of the call
Attempted(kind, outcome) ==
    [fetch EXCEPT !.attempts = Append(@, [kind |-> kind, outcome |-> outcome])]

\* return <transcript>, <language>: "text", "blocked" ("IP_BLOCKED") or "none"
FetchReturn(f, result) == [f EXCEPT !.pc = "done", !.result = result]

\* download_video, serving a request of browser c, calls
\* get_youtube_transcript(video_id)
FetchStart(c) ==
    /\ fetch.pc \in {"idle", "done"}
    /\ fetch' = [IdleFetch EXCEPT !.pc = "preferred", !.client = c]
    /\ UNCHANGED <<storeVars, sweepVars, streamVars, chatVars, flight,
                 djangoVars>>

\* api.fetch(video_id, languages=[language]) for the next preferred
\* language: the blocking error ends the call, another error goes on to
\* the next language.
FetchPreferred(outcome) ==
    /\ fetch.pc = "preferred"
    /\ fetch' =
         IF outcome = "found"
         THEN FetchReturn(Attempted("preferred", outcome), "text")
         ELSE IF outcome = "blocked"
         THEN FetchReturn(Attempted("preferred", outcome), "blocked")
         ELSE IF fetch.language < Len(PreferredLanguages)
         THEN [Attempted("preferred", outcome) EXCEPT !.language = @ + 1]
         ELSE [Attempted("preferred", outcome) EXCEPT !.pc = "fallback"]
    /\ UNCHANGED <<storeVars, sweepVars, streamVars, chatVars, flight,
                 djangoVars>>

\* api.fetch(video_id, languages=['en']) inside try ... except: pass
FetchFallback(outcome) ==
    /\ fetch.pc = "fallback"
    /\ fetch' =
         IF outcome = "found"
         THEN FetchReturn(Attempted("fallback", outcome), "text")
         ELSE [Attempted("fallback", outcome) EXCEPT !.pc = "list"]
    /\ UNCHANGED <<storeVars, sweepVars, streamVars, chatVars, flight,
                 djangoVars>>

\* api.list(video_id): n transcripts ("found"), or an error, which is printed
FetchList(outcome, n) ==
    /\ fetch.pc = "list"
    /\ fetch' =
         IF outcome # "found" \/ n = 0
         THEN FetchReturn(Attempted("list", outcome), "none")
         ELSE [Attempted("list", outcome) EXCEPT !.pc = "available", !.listed = n]
    /\ UNCHANGED <<storeVars, sweepVars, streamVars, chatVars, flight,
                 djangoVars>>

\* api.fetch for the next listed transcript: every error is printed and the
\* loop continues
FetchAvailable(outcome) ==
    /\ fetch.pc = "available"
    /\ fetch' =
         IF outcome = "found"
         THEN FetchReturn(Attempted("available", outcome), "text")
         ELSE IF fetch.listed > 1
         THEN [Attempted("available", outcome) EXCEPT !.listed = @ - 1]
         ELSE FetchReturn([Attempted("available", outcome) EXCEPT !.listed = 0],
                          "none")
    /\ UNCHANGED <<storeVars, sweepVars, streamVars, chatVars, flight,
                 djangoVars>>

NextFetch ==
    \/ \E c \in Clients : FetchStart(c)
    \/ \E o \in FetchOutcomes : FetchPreferred(o)
    \/ \E o \in FetchOutcomes : FetchFallback(o)
    \/ \E o \in FetchOutcomes, n \in 0..MaxListed : FetchList(o, n)
    \/ \E o \in FetchOutcomes : FetchAvailable(o)

SpecFetch == Init /\ [][NextFetch]_vars

\* C25: an IP-blocking error raised by any fetch attempt of the transcript
\* fetch (preferred language, default-language fallback or first available)
\* ends the call with the blocked outcome: the blocked attempt is the last
\* attempt of the call.
C25_BlockEndsFetch ==
    \A k \in 1..Len(fetch.attempts) :
        (/\ fetch.attempts[k].kind \in {"preferred", "fallback", "available"}
         /\ fetch.attempts[k].outcome = "blocked")
            => /\ k = Len(fetch.attempts)
               /\ fetch.pc = "done"
               /\ fetch.result = "blocked"

\* the first preferred-language attempt was blocked and the call returned
\* the blocked outcome
C25_Witness ==
    /\ fetch.pc = "done"
    /\ fetch.result = "blocked"
    /\ fetch.attempts = <<[kind |-> "preferred", outcome |-> "blocked"]>>

-----------------------------------------------------------------------------
(* The cleanup specification: acquisitions, POST /cleanup and              *)
(* GET /list-downloads within one second.                                  *)

NextCleanup ==
    \/ \E c \in Clients : Upload(c, TRUE, ValidUpload, 1)
    \/ \E c \in Clients, d \in DownloadCases : Download(c, d)
    \/ \E c \in Clients : Cleanup(c)
    \/ \E c \in Clients : ListDownloads(c)

SpecCleanup == Init /\ [][NextCleanup]_vars

\* C31: a metadata probe that exits non-zero, or whose output cannot be
\* parsed, does not abort the download request: the primary download is
\* attempted, the request is not refused, and the name of the file it
\* returns is built from the placeholder title "video".
C31_ProbeFailureUsesPlaceholder ==
    (/\ resp.op = "download"
     /\ resp.req.url
     /\ resp.req.probe \in {"nonzero", "badjson"})
    => /\ "primary" \in Elems(resp.steps)
       /\ resp.status # 400
       /\ resp.status = 200
             => MatchesAt(resp.filename, 1, PlaceholderTitle \o <<"_">>)

\* a request whose probe exited non-zero and which downloaded video_0.webm
C31_Witness ==
    /\ resp.op = "download"
    /\ resp.req.probe = "nonzero"
    /\ resp.status = 200
    /\ resp.filename = FileName(PlaceholderTitle, now, ExtWebm)
    /\ resp.filename \in DOMAIN files

\* the range of the request has been parsed
RangeParsed == st_pc \in {"open", "loop", "done"} /\ st_status = 206

\* C32: range parsing defaults each bound on its own: bytes=s-e gives
\* start s and end e, bytes=s- gives start s and end fileSize-1, and
\* bytes=-e, a request that gives only an end, gives start 0 and end e.
C32_BoundsDefaultIndependently ==
    RangeParsed =>
        /\ \A s \in RangePoints, e \in RangePoints :
              st_range = RangeHeader(s, e) => byte_start = s /\ byte_end = e
        /\ \A s \in RangePoints :
              st_range = BytesEq \o Digits(s) \o <<"-">>
                  => byte_start = s /\ byte_end = st_size - 1
        /\ \A e \in {1, ChunkSize} :
              st_range = BytesEq \o <<"-">> \o Digits(e)
                  => byte_start = 0 /\ byte_end = e

\* a request bytes=1- of a file of more than one chunk: start 1, end
\* fileSize-1
C32_Witness ==
    /\ RangeParsed
    /\ st_range = BytesEq \o Digits(1) \o <<"-">>
    /\ st_size > ChunkSize
    /\ byte_start = 1
    /\ byte_end = st_size - 1

\* min(end-start+1, max(0, fileSize-start)) when end-start+1 > 0, else 0
ExpectedBytes ==
    LET asked == byte_end - byte_start + 1
        there == IF st_size > byte_start THEN st_size - byte_start ELSE 0
    IN  IF asked > 0 THEN (IF asked < there THEN asked ELSE there) ELSE 0

\* C33: the body generator of GET /stream terminates: every iteration that
\* does not end the loop yields a chunk and lowers the count of remaining
\* bytes, which stays at least 0; every chunk has between 1 and 8192 bytes;
\* and the generator ends, without an error, having yielded
\* min(end-start+1, max(0, fileSize-start)) bytes when end-start+1 > 0 and
\* none otherwise, also when the file is exhausted first.
C33_GeneratorBounded ==
    [][(st_pc = "loop" /\ st_status = 206)
       => /\ st_pc' \in {"loop", "done"}
          /\ st_pc' = "loop"
                => /\ 0 <= remaining' /\ remaining' < remaining
                   /\ Len(body') = Len(body) + 1
          /\ \A i \in 1..Len(body') :
                1 <= Len(body'[i]) /\ Len(body'[i]) <= 8192
          /\ st_pc' = "done" => Len(Flatten(body')) = ExpectedBytes]_vars

\* the file of one chunk and one byte ended a request for more bytes than
\* it holds after its first byte
C33_Witness ==
    /\ st_pc = "done"
    /\ st_status = 206
    /\ byte_start = 1
    /\ byte_end >= st_size
    /\ Len(body) = 1
    /\ Len(body[1]) = ChunkSize

\* C34: for an existing file GET /stream answers 206 whatever the Range
\* header is, and never with an error; Content-Length is end-start+1 also
\* when start > end or start >= fileSize, and the body is then empty.
C34_Always206 ==
    st_filename \in DOMAIN files =>
        /\ st_pc # "error"
        /\ st_pc \in {"open", "loop", "done"} =>
              /\ st_status = 206
              /\ content_length = byte_end - byte_start + 1
              /\ (byte_start > byte_end \/ byte_start >= st_size) => body = <<>>

\* a completed request whose start lies behind its end: status 206, a
\* negative Content-Length and no body
C34_Witness ==
    /\ st_pc = "done"
    /\ st_status = 206
    /\ st_range = RangeHeader(ChunkSize, 1)
    /\ content_length < 0
    /\ body = <<>>

\* C35: once a file has been removed, POST /analyze for it is answered 404
\* even when the session holds a cached result for (filename, mode), and
\* POST /transcribe is still answered with the session's cached
\* transcription.
C35_AnalyzeChecksFileFirst ==
    [][\A c \in Clients :
          (AnalyzeName \notin DOMAIN files /\ resp'.client = c)
          => /\ (/\ resp'.op = "analyze"
                 /\ CacheKey(AnalyzeName, SummaryMode) \in DOMAIN cookie[c].video_analysis
                 /\ Analyze(c, AnalyzeName, SummaryMode, "success"))
                => resp'.status = 404
             /\ (/\ resp'.op = "transcribe"
                 /\ AnalyzeName \in DOMAIN cookie[c].video_transcriptions
                 /\ \E o \in {"success", "failed"} :
                       transcribe_video(c, AnalyzeName, o))
                => /\ resp'.status = 200
                   /\ resp'.cached
                   /\ resp'.transcription = cookie[c].video_transcriptions[AnalyzeName]]_vars

\* an analyze request answered 404 for a removed file whose result and
\* transcript are in the session's caches
C35_Witness ==
    /\ resp.op = "analyze"
    /\ resp.client = "A"
    /\ resp.status = 404
    /\ AnalyzeName \notin DOMAIN files
    /\ CacheKey(AnalyzeName, SummaryMode) \in DOMAIN cookie["A"].video_analysis
    /\ AnalyzeName \in DOMAIN cookie["A"].video_transcriptions

-----------------------------------------------------------------------------
(* The cache key specification: uploads whose names extend one another,    *)
(* and POST /analyze with modes that hold the separator and the tail of a  *)
(* stored name.                                                            *)

\* the name upload_video gives a file named raw at time 0
StoredName(raw) == FileName(Sanitize(Stem(raw)), 0, Lower(Suffix(raw)))

\* a.mp4 is stored as a_0.mp4 and a_0.mp4 as a_0_0.mp4
KeyUploads == <<ValidUpload, <<"a", "_", "0", ".", "m", "p", "4">>>>

\* the stored names, and the name a, with which the mode 0.mp4_summary
\* spells the key of (a_0.mp4, summary)
KeyNames == {StoredName(KeyUploads[1]), StoredName(KeyUploads[2]), <<"a">>}

KeyModes ==
    {SummaryMode,
     <<"0", ".", "m", "p", "4", "_">> \o SummaryMode,
     <<"0", "_">> \o SummaryMode}

\* Browser A has uploaded the two files at time 0.
InitKeys ==
    /\ now = 0
    /\ files = [f \in {StoredName(KeyUploads[1]), StoredName(KeyUploads[2])}
                  |-> [size |-> 1, mtime |-> 0]]
    /\ session_files =
          (Token(1) :> <<StoredName(KeyUploads[1]), StoredName(KeyUploads[2])>>)
    /\ cookie = [c \in Clients |->
                   IF c = "A" THEN [EmptyCookie EXCEPT !.has = {"session_id"},
                                                       !.session_id = Token(1)]
                   ELSE EmptyCookie]
    /\ tokens = 1
    /\ resp = [op |-> "upload", client |-> "A", status |-> 200,
               req |-> KeyUploads[2], error |-> "",
               filename |-> StoredName(KeyUploads[2]),
               steps |-> <<"save", "session", "record", "probe">>]
    /\ acquired = [c \in Clients |->
                     IF c = "A"
                     THEN {StoredName(KeyUploads[1]), StoredName(KeyUploads[2])}
                     ELSE {}]
    /\ backend_calls = 0
    /\ SweepIdle
    /\ StreamIdle
    /\ ChatIdle
    /\ FlightIdle
    /\ FetchIdle
    /\ DjangoIdle

NextKeys ==
    \E c \in Clients, f \in KeyNames, m \in KeyModes : Analyze(c, f, m, "success")

SpecKeys == InitKeys /\ [][NextKeys]_vars

\* two analyze requests of stored files have the same key only when they
\* have the same filename and the same mode
KeysInjective ==
    \A f1 \in KeyNames \cap DOMAIN files, f2 \in KeyNames \cap DOMAIN files :
        \A m1 \in KeyModes, m2 \in KeyModes :
            CacheKey(f1, ModeOf(m1)) = CacheKey(f2, ModeOf(m2))
                => f1 = f2 /\ ModeOf(m1) = ModeOf(m2)

-----------------------------------------------------------------------------
(* POST /transcribe and the analysis path                                  *)

\* C37: every entry of a session's transcript cache is a transcript the
\* caption fetch of a download stored, and an analysis computed for a
\* stored file uses the transcript-based path exactly when the session
\* holds such a transcript for the file: a POST /transcribe made before it
\* does not change the path.
C37_TranscribeLeavesPathAlone ==
    [][\A c \in Clients :
          (/\ resp'.op = "analyze"
           /\ resp'.client = c
           /\ resp'.status = 200
           /\ ~resp'.cached
           /\ Analyze(c, AnalyzeName, SummaryMode, "success"))
          => /\ \A f \in DOMAIN cookie[c].video_transcriptions :
                   cookie[c].video_transcriptions[f] = TranscriptText
             /\ resp'.backend = "analyze_with_transcript"
                   <=> /\ AnalyzeName \in DOMAIN cookie[c].video_transcriptions
                       /\ cookie[c].video_transcriptions[AnalyzeName]
                             = TranscriptText]_vars

\* the session that downloaded the captioned video is analysed through its
\* transcript
C37_Witness ==
    /\ resp.op = "analyze"
    /\ resp.status = 200
    /\ ~resp.cached
    /\ resp.backend = "analyze_with_transcript"
    /\ AnalyzeName \in DOMAIN cookie[resp.client].video_transcriptions
    /\ cookie[resp.client].video_transcriptions[AnalyzeName] = TranscriptText

-----------------------------------------------------------------------------
(* The Django downloader: views.index and YouTubeDownloader.download       *)

\* result.stderr[:500] and str(e)[:500]
StderrLimit == 500

DownloadedFileNotFound ==
    <<"D", "o", "w", "n", "l", "o", "a", "d", "e", "d", " ", "f", "i",
      "l", "e", " ", "n", "o", "t", " ", "f", "o", "u", "n", "d">>

DownloadTimeout ==
    <<"D", "o", "w", "n", "l", "o", "a", "d", " ", "t", "i", "m", "e",
      "o", "u", "t">>

\* str(e) of the IntegrityError save() raises for a None in a column that
\* is not nullable (duration, title and thumbnail are not)
IntegrityError ==
    <<"N", "O", "T", " ", "N", "U", "L", "L", " ", "c", "o", "n", "s",
      "t", "r", "a", "i", "n", "t", " ", "f", "a", "i", "l", "e", "d",
      ":", " ", "d", "o", "w", "n", "l", "o", "a", "d", "e", "r", "_",
      "d", "o", "w", "n", "l", "o", "a", "d", ".", "d", "u", "r", "a",
      "t", "i", "o", "n">>

\* str(e) of the FileNotFoundError subprocess.run raises when yt-dlp is
\* not installed
NoSuchProgram ==
    <<"[", "E", "r", "r", "n", "o", " ", "2", "]", " ", "N", "o", " ",
      "s", "u", "c", "h", " ", "f", "i", "l", "e", " ", "o", "r", " ",
      "d", "i", "r", "e", "c", "t", "o", "r", "y", ":", " ", "'", "y",
      "t", "-", "d", "l", "p", "'">>

\* the title yt-dlp reports for the url of request id, and the file its
\* output template '%(title)s.%(ext)s' names: the requests of the model ask
\* for different videos
TitleOf(id) == <<"v">> \o Digits(id)

OutputFile(id) == TitleOf(id) \o ExtMp4

\* download_obj.save(): the row is written, unless a field that is not
\* nullable holds None; then save() raises and the row stays as it was
SaveRaises(obj) == obj.nulls # {}

Saved(id, obj) == DictPut(Download_objects, id, obj)

\* the two except clauses: status 'failed' and the (sliced) message
Failed(obj, message) ==
    [obj EXCEPT !.status = "failed",
                !.error_message =
                    SubSeq(message, 1, Min(Len(message), StderrLimit))]

\* files.sort(key=st_mtime, reverse=True); files[0]: a file of the
\* directory none of whose files is newer
MostRecent(dir) ==
    {f \in DOMAIN dir : \A g \in DOMAIN dir : dir[g].mtime <= dir[f].mtime}

\* views.index: Download.objects.create(..., status='pending'). Ids are
\* given in the order of creation.
index(id) ==
    /\ download_obj[id].pc = "none"
    /\ id = Cardinality(DOMAIN Download_objects) + 1
    /\ Download_objects' = Saved(id, NewDownload)
    /\ download_obj' = [download_obj EXCEPT ![id].pc = "created",
                                            ![id].obj = NewDownload]
    /\ UNCHANGED downloads_dir
    /\ UNCHANGED <<storeVars, sweepVars, streamVars, chatVars, flight, fetch>>

\* download_obj.status = 'downloading'; download_obj.save()
download_begin(id) ==
    /\ download_obj[id].pc = "created"
    /\ LET obj == [download_obj[id].obj EXCEPT !.status = "downloading"]
       IN  /\ download_obj' = [download_obj EXCEPT ![id].pc = "info",
                                                   ![id].obj = obj]
           /\ Download_objects' = Saved(id, obj)
    /\ UNCHANGED downloads_dir
    /\ UNCHANGED <<storeVars, sweepVars, streamVars, chatVars, flight, fetch>>

\* get_info: None (the probe failed), the fields of the video, or the
\* fields with "duration": null, as yt-dlp prints for a live stream
InfoOutcomes == {"none", "ok", "null"}

\* info = self.get_info(url); if info: title, duration, thumbnail; save().
\* A save() that raises enters 'except Exception', whose own save() of the
\* same object raises again and leaves download().
download_info(id, info) ==
    /\ download_obj[id].pc = "info"
    /\ LET obj0 == download_obj[id].obj
           obj  == IF info = "none" THEN obj0
                   ELSE [obj0 EXCEPT !.title = TitleOf(id),
                                     !.nulls = IF info = "null"
                                               THEN {"duration"} ELSE {}]
       IN  IF info = "none"
           THEN /\ download_obj' = [download_obj EXCEPT ![id].pc = "run"]
                /\ UNCHANGED Download_objects
           ELSE IF ~SaveRaises(obj)
           THEN /\ download_obj' = [download_obj EXCEPT ![id].pc = "run",
                                                       ![id].obj = obj]
                /\ Download_objects' = Saved(id, obj)
           ELSE /\ download_obj' =
                      [download_obj EXCEPT ![id].pc = "raised",
                                           ![id].obj = Failed(obj, IntegrityError)]
                /\ UNCHANGED Download_objects
    /\ UNCHANGED downloads_dir
    /\ UNCHANGED <<storeVars, sweepVars, streamVars, chatVars, flight, fetch>>

\* yt-dlp: exit status 0 after writing its file, exit status 0 without a
\* file, another exit status, no end within 600 seconds, or no program
RunOutcomes == {"file", "nofile", "fail", "timeout", "oserror"}

\* result = subprocess.run(cmd, capture_output=True, text=True, timeout=600)
\* with its two except clauses. The file of a run is the newest of the
\* directory at the moment it is written.
download_run(id, outcome, stderr) ==
    /\ download_obj[id].pc = "run"
    /\ outcome = "fail" \/ stderr = <<>>
    /\ IF outcome \in {"timeout", "oserror"}
       THEN LET obj == Failed(download_obj[id].obj,
                              IF outcome = "timeout" THEN DownloadTimeout
                              ELSE NoSuchProgram)
            IN  /\ download_obj' = [download_obj EXCEPT ![id].pc = "returned",
                                                        ![id].obj = obj,
                                                        ![id].returned = FALSE]
                /\ Download_objects' = Saved(id, obj)
                /\ UNCHANGED downloads_dir
       ELSE /\ download_obj' =
                  [download_obj EXCEPT ![id].pc = "find",
                                       ![id].returncode =
                                           IF outcome = "fail" THEN 1 ELSE 0,
                                       ![id].stderr = stderr]
            /\ downloads_dir' =
                  IF outcome = "file"
                  THEN DictPut(downloads_dir, OutputFile(id),
                               [mtime |-> Cardinality(DOMAIN downloads_dir) + 1,
                                by |-> id])
                  ELSE downloads_dir
            /\ UNCHANGED Download_objects
    /\ UNCHANGED <<storeVars, sweepVars, streamVars, chatVars, flight, fetch>>

\* if result.returncode == 0: the most recently modified file of the
\* directory is the downloaded file ... download_obj.save();
\* return download_obj.status == 'completed'
download_finish(id, downloaded_file) ==
    /\ download_obj[id].pc = "find"
    /\ LET r    == download_obj[id]
           obj  == IF r.returncode = 0
                   THEN IF DOMAIN downloads_dir # {}
                        THEN [r.obj EXCEPT !.file_path = downloaded_file,
                                           !.status = "completed"]
                        ELSE Failed(r.obj, DownloadedFileNotFound)
                   ELSE Failed(r.obj, IF r.stderr # <<>> THEN r.stderr
                                      ELSE UnknownError)
       IN  /\ r.returncode = 0 /\ DOMAIN downloads_dir # {}
                => downloaded_file \in MostRecent(downloads_dir)
           /\ r.returncode # 0 \/ DOMAIN downloads_dir = {}
                => downloaded_file = <<>>
           /\ download_obj' = [download_obj EXCEPT
                                  ![id].pc = "returned",
                                  ![id].obj = obj,
                                  ![id].returned = (obj.status = "completed")]
           /\ Download_objects' = Saved(id, obj)
    /\ UNCHANGED downloads_dir
    /\ UNCHANGED <<storeVars, sweepVars, streamVars, chatVars, flight, fetch>>

NextDjango ==
    \/ \E id \in DownloadIds : index(id)
    \/ \E id \in DownloadIds : download_begin(id)
    \/ \E id \in DownloadIds, info \in InfoOutcomes : download_info(id, info)
    \/ \E id \in DownloadIds, o \in RunOutcomes, stderr \in {<<>>, StderrLateBot} :
          download_run(id, o, stderr)
    \/ \E id \in DownloadIds, f \in {<<>>} \cup DOMAIN downloads_dir :
          download_finish(id, f)

SpecDjango == Init /\ [][NextDjango]_vars

\* C38: when download() has ended for a request, it has returned (no
\* exception left it), the saved row of the record has status completed
\* or failed, the value returned is True exactly when the status is
\* completed, and a failed row has a non-empty error_message.
C38_EndsCompletedOrFailed ==
    \A id \in DownloadIds :
        download_obj[id].pc \in {"returned", "raised"}
            => /\ download_obj[id].pc = "returned"
               /\ Download_objects[id].status \in {"completed", "failed"}
               /\ download_obj[id].returned
                     <=> Download_objects[id].status = "completed"
               /\ Download_objects[id].status = "failed"
                     => Download_objects[id].error_message # <<>>

\* the paths on which the claim's statement holds: a timeout and a failed
\* run with a long stderr have both returned False with a failed row
C38_Witness ==
    \E a, b \in DownloadIds :
        /\ download_obj[a].pc = "returned"
        /\ ~download_obj[a].returned
        /\ Download_objects[a].status = "failed"
        /\ Download_objects[a].error_message = DownloadTimeout
        /\ download_obj[b].pc = "returned"
        /\ Download_objects[b].status = "failed"
        /\ Len(Download_objects[b].error_message) = StderrLimit

\* C39: the file_path of a completed record is the file its own run of
\* yt-dlp produced.
C39_OwnFileAttributed ==
    \A id \in DOMAIN Download_objects :
        Download_objects[id].status = "completed"
            => /\ Download_objects[id].file_path \in DOMAIN downloads_dir
               /\ downloads_dir[Download_objects[id].file_path].by = id

\* two requests whose runs were in progress at the same time are both
\* completed with their own files: the first finished its lookup before
\* the second one's file was written
C39_Witness ==
    \E a, b \in DOMAIN Download_objects :
        /\ a # b
        /\ Download_objects[a].status = "completed"
        /\ Download_objects[b].status = "completed"
        /\ Download_objects[a].file_path = OutputFile(a)
        /\ Download_objects[b].file_path = OutputFile(b)

=============================================================================
